---- MODULE Spec2Model ----
(***************************************************************************)
(* Thompson NFA pattern engine of the muEmacs linter extension             *)
(* (src/c_lint/lint.c): nfa_compile builds a Program (flat state array     *)
(* with index edges) from a pattern string, nfa_search simulates it on     *)
(* one line.  Bytes are integers 0..255, a C string is a sequence of       *)
(* non-zero bytes (the terminating NUL is read as 0 past the end), a       *)
(* class bitmap cls[32] is the set of the bytes whose bit is set, a state  *)
(* index s of the C array is element s+1 of the sequence states.           *)
(***************************************************************************)
EXTENDS Integers, Sequences, FiniteSets, TLC

VARIABLES pattern, case_sensitive, str,
          prog, ret, pc,
          p, start, last, start_anchor,
          start_pos, pos, cur, result,
          calls, frames,
          g_api, pattern_rules, g_buffer_diags, g_lint_source_file,
          api, loaded, buffers, curbp, registered, message, searched,
          search_offset

vars == <<pattern, case_sensitive, str, prog, ret, pc,
          p, start, last, start_anchor, start_pos, pos, cur, result,
          calls, frames,
          g_api, pattern_rules, g_buffer_diags, g_lint_source_file,
          api, loaded, buffers, curbp, registered, message, searched,
          search_offset>>

\* nfa_search calls that share one Program: per call its line, position and
\* result; frames holds the automatic lists of the calls
conc_vars == <<calls, frames>>
\* the linter: globals of lint.c; the editor behind struct uemacs_api (the
\* api functions it offers, whether it has the extension loaded, its buffers
\* and current buffer, the commands and handlers registered with it, the
\* message it shows); the nfa_search calls made by the handler that ran last;
\* search_offset of run_pattern_rules while its all-matches loop runs
lint_vars == <<g_api, pattern_rules, g_buffer_diags, g_lint_source_file,
               api, loaded, buffers, curbp, registered, message, searched,
               search_offset>>

compile_locals == <<p, start, last, start_anchor>>
search_locals == <<start_pos, pos, cur, result>>
inputs == <<pattern, case_sensitive, str>>

(***************************************************************************)
(* Program constants                                                       *)
(***************************************************************************)
NFA_MAX_STATES == 512
NFA_MAX_LIST == 1024

NUL == 0
TAB == 9
NL == 10
SPACE == 32
DOLLAR == 36
LPAREN == 40
STAR == 42
MINUS == 45
DOT == 46
LBRACK == 91
BACKSLASH == 92
RBRACK == 93
CARET == 94

Byte == 0..255

(***************************************************************************)
(* Byte helpers                                                            *)
(***************************************************************************)
tolower(c) == IF c \in 65..90 THEN c + 32 ELSE c

\* normalisation that never folds case
nfa_normalize_NoFold(c, cs) == c

nfa_normalize(c, cs) == IF cs THEN c ELSE tolower(c)

nfa_cls_set(cls, b) == cls \cup {b}

nfa_cls_has(cls, b) == b \in cls

\* *p for the pointer at offset q of the NUL-terminated string s
At(s, q) == IF q < Len(s) THEN s[q + 1] ELSE NUL

(***************************************************************************)
(* Program construction                                                    *)
(***************************************************************************)
\* the zero-initialised Program of a rule ({0})
EmptyProg == [start_state |-> 0, state_count |-> 0,
              case_sensitive |-> FALSE, states |-> <<>>]

\* prog->states[idx] = st: the array keeps what earlier compilations wrote
\* behind state_count; the sequence holds the entries written so far
Store(states, idx, st) ==
    IF idx < Len(states) THEN [states EXCEPT ![idx + 1] = st] ELSE Append(states, st)

\* nfa_add_state without the capacity test
nfa_add_state_Unchecked(pr, t, c, out, out1) ==
    [prog |-> [pr EXCEPT !.state_count = @ + 1,
                         !.states = Store(@, pr.state_count,
                                          [type |-> t, c |-> c, cls |-> {},
                                           out |-> out, out1 |-> out1])],
     idx  |-> pr.state_count]

\* nfa_add_state that leaves the out1 field of a reused entry as it was
nfa_add_state_StaleOut1(pr, t, c, out, out1) ==
    IF pr.state_count >= NFA_MAX_STATES
    THEN [prog |-> pr, idx |-> -1]
    ELSE [prog |-> [pr EXCEPT !.state_count = @ + 1,
                              !.states = Store(@, pr.state_count,
                                               [type |-> t, c |-> c, cls |-> {},
                                                out |-> out,
                                                out1 |-> IF pr.state_count < Len(pr.states)
                                                         THEN pr.states[pr.state_count + 1].out1
                                                         ELSE out1])],
          idx  |-> pr.state_count]

nfa_add_state(pr, t, c, out, out1) ==
    IF pr.state_count >= NFA_MAX_STATES
    THEN [prog |-> pr, idx |-> -1]
    ELSE [prog |-> [pr EXCEPT !.state_count = @ + 1,
                              !.states = Store(@, pr.state_count,
                                               [type |-> t, c |-> c, cls |-> {},
                                                out |-> out, out1 |-> out1])],
          idx  |-> pr.state_count]

\* nfa_patch that always writes the out edge, also of a Split
nfa_patch_OutOnly(pr, s, target) ==
    IF s < 0 THEN pr ELSE [pr EXCEPT !.states[s + 1].out = target]

nfa_patch(pr, s, target) ==
    IF s < 0 THEN pr
    ELSE IF pr.states[s + 1].type = "ST_SPLIT"
         THEN IF pr.states[s + 1].out1 < 0
              THEN [pr EXCEPT !.states[s + 1].out1 = target]
              ELSE [pr EXCEPT !.states[s + 1].out = target]
         ELSE [pr EXCEPT !.states[s + 1].out = target]

\* result of one pass of the parsing loop: st is "run", "false" (return
\* false) or "hang" (the loop does not terminate)
Ctx(pr, q, st0, la, st) == [prog |-> pr, p |-> q, start |-> st0, last |-> la, st |-> st]

\* StarWire with the entry left on the consuming state when the starred unit
\* is the first one
StarWire_EntryNotMoved(pr, q, st0, s) ==
    LET b == nfa_add_state(pr, "ST_SPLIT", 0, -1, -1) IN
    IF b.idx < 0 THEN Ctx(b.prog, q, st0, s, "false")
    ELSE LET split == b.idx
             pr1 == [b.prog EXCEPT !.states[s + 1].out = split,
                                   !.states[split + 1].out = s]
         IN Ctx(pr1, q + 1, st0, split, "run")

\* closure wiring after a consuming state s (= last), with q at the '*'
StarWire(pr, q, st0, s) ==
    LET b == nfa_add_state(pr, "ST_SPLIT", 0, -1, -1) IN
    IF b.idx < 0 THEN Ctx(b.prog, q, st0, s, "false")
    ELSE LET split == b.idx
             pr1 == [b.prog EXCEPT !.states[s + 1].out = split,
                                   !.states[split + 1].out = s]
         IN IF st0 = s
            THEN Ctx(pr1, q + 1, split, split, "run")
            ELSE Ctx(nfa_patch(pr1, s, split), q + 1, st0, split, "run")

\* append one consuming state of type t, link it after last; q is the
\* offset just after the unit; starred says whether a following '*' is looked at
AppendUnit(pr, pat, q, st0, la, t, c, cls, starred) ==
    LET a == nfa_add_state(pr, t, c, -1, -1) IN
    IF a.idx < 0 THEN Ctx(a.prog, q, st0, la, "false")
    ELSE LET s   == a.idx
             pr1 == [a.prog EXCEPT !.states[s + 1].cls = cls]
             pr2 == IF st0 = -1 THEN pr1 ELSE nfa_patch(pr1, la, s)
             st1 == IF st0 = -1 THEN s ELSE st0
         IN IF starred /\ At(pat, q) = STAR
            THEN StarWire(pr2, q, st1, s)
            ELSE Ctx(pr2, q, st1, s, "run")

\* the 8-bit loop  for (unsigned char x = a; x <= b; x++)  ends iff b < 255
RangeHangs(a, b) == (IF a > b THEN a ELSE b) = 255

ClsRange(cls, a, b) == cls \cup (IF a > b THEN b..a ELSE a..b)

\* the member loop with the upper endpoint of a range taken as written
RECURSIVE ClassBody_RawRange(_, _, _, _)
ClassBody_RawRange(pat, q, cls, cs) ==
    IF At(pat, q) = NUL \/ At(pat, q) = RBRACK
    THEN [p |-> q, cls |-> cls, hang |-> FALSE]
    ELSE LET a == nfa_normalize(At(pat, q), cs) IN
         IF At(pat, q + 1) = MINUS /\ At(pat, q + 2) # NUL /\ At(pat, q + 2) # RBRACK
         THEN LET b == At(pat, q + 2) IN
              IF RangeHangs(a, b)
              THEN [p |-> q, cls |-> cls, hang |-> TRUE]
              ELSE ClassBody_RawRange(pat, q + 3, ClsRange(cls, a, b), cs)
         ELSE ClassBody_RawRange(pat, q + 1, nfa_cls_set(cls, a), cs)

\* the member loop of a class, from offset q up to ']' or NUL
RECURSIVE ClassBody(_, _, _, _)
ClassBody(pat, q, cls, cs) ==
    IF At(pat, q) = NUL \/ At(pat, q) = RBRACK
    THEN [p |-> q, cls |-> cls, hang |-> FALSE]
    ELSE LET a == nfa_normalize(At(pat, q), cs) IN
         IF At(pat, q + 1) = MINUS /\ At(pat, q + 2) # NUL /\ At(pat, q + 2) # RBRACK
         THEN LET b == nfa_normalize(At(pat, q + 2), cs) IN
              IF RangeHangs(a, b)
              THEN [p |-> q, cls |-> cls, hang |-> TRUE]
              ELSE ClassBody(pat, q + 3, ClsRange(cls, a, b), cs)
         ELSE ClassBody(pat, q + 1, nfa_cls_set(cls, a), cs)

\* negation without the newline fix-up
Negate_KeepNewline(cls) == Byte \ cls

Negate(cls) == (Byte \ cls) \ {NL}

ClassUnit(pr, pat, q, st0, la, cs) ==
    LET negate == At(pat, q + 1) = CARET
        q1 == IF negate THEN q + 2 ELSE q + 1
    IN IF At(pat, q1) = RBRACK \/ At(pat, q1) = NUL
       THEN Ctx(pr, q1, st0, la, "false")
       ELSE LET body == ClassBody(pat, q1, {}, cs) IN
            IF body.hang THEN Ctx(pr, body.p, st0, la, "hang")
            ELSE IF At(pat, body.p) # RBRACK THEN Ctx(pr, body.p, st0, la, "false")
            ELSE AppendUnit(pr, pat, body.p + 1, st0, la, "ST_CLASS", 0,
                            IF negate THEN Negate(body.cls) ELSE body.cls, TRUE)

\* ParseUnit without the stray-star test: a '*' that follows no unit is
\* compiled as a literal
ParseUnit_StarLiteral(pr, pat, q, st0, la, cs) ==
    IF At(pat, q) = BACKSLASH
    THEN IF At(pat, q + 1) = NUL
         THEN Ctx(pr, q + 1, st0, la, "run")
         ELSE AppendUnit(pr, pat, q + 2, st0, la, "ST_CHAR",
                         nfa_normalize(At(pat, q + 1), cs), {}, FALSE)
    ELSE IF At(pat, q) = DOT
    THEN AppendUnit(pr, pat, q + 1, st0, la, "ST_ANY", 0, {}, TRUE)
    ELSE IF At(pat, q) = LBRACK
    THEN ClassUnit(pr, pat, q, st0, la, cs)
    ELSE AppendUnit(pr, pat, q + 1, st0, la, "ST_CHAR",
                    nfa_normalize(At(pat, q), cs), {}, TRUE)

\* ParseUnit that rejects '(' , ')' , '+' , '?' , '{' , '|' , '}'
ParseUnit_RejectUnsupported(pr, pat, q, st0, la, cs) ==
    IF At(pat, q) = BACKSLASH
    THEN IF At(pat, q + 1) = NUL
         THEN Ctx(pr, q + 1, st0, la, "run")
         ELSE AppendUnit(pr, pat, q + 2, st0, la, "ST_CHAR",
                         nfa_normalize(At(pat, q + 1), cs), {}, FALSE)
    ELSE IF At(pat, q) = DOT
    THEN AppendUnit(pr, pat, q + 1, st0, la, "ST_ANY", 0, {}, TRUE)
    ELSE IF At(pat, q) = LBRACK
    THEN ClassUnit(pr, pat, q, st0, la, cs)
    ELSE IF At(pat, q) \in {STAR, LPAREN, 41, 43, 63, 123, 124, 125}
    THEN Ctx(pr, q, st0, la, "false")
    ELSE AppendUnit(pr, pat, q + 1, st0, la, "ST_CHAR",
                    nfa_normalize(At(pat, q), cs), {}, TRUE)

\* ParseUnit that looks for a '*' after an escaped literal as after a plain one
ParseUnit_EscapedStar(pr, pat, q, st0, la, cs) ==
    IF At(pat, q) = BACKSLASH
    THEN IF At(pat, q + 1) = NUL
         THEN Ctx(pr, q + 1, st0, la, "run")
         ELSE AppendUnit(pr, pat, q + 2, st0, la, "ST_CHAR",
                         nfa_normalize(At(pat, q + 1), cs), {}, TRUE)
    ELSE IF At(pat, q) = DOT
    THEN AppendUnit(pr, pat, q + 1, st0, la, "ST_ANY", 0, {}, TRUE)
    ELSE IF At(pat, q) = LBRACK
    THEN ClassUnit(pr, pat, q, st0, la, cs)
    ELSE IF At(pat, q) = STAR
    THEN Ctx(pr, q, st0, la, "false")
    ELSE AppendUnit(pr, pat, q + 1, st0, la, "ST_CHAR",
                    nfa_normalize(At(pat, q), cs), {}, TRUE)

\* one pass of  while (*p && *p != '$')
ParseUnit(pr, pat, q, st0, la, cs) ==
    IF At(pat, q) = BACKSLASH
    THEN IF At(pat, q + 1) = NUL
         THEN Ctx(pr, q + 1, st0, la, "run")
         ELSE AppendUnit(pr, pat, q + 2, st0, la, "ST_CHAR",
                         nfa_normalize(At(pat, q + 1), cs), {}, FALSE)
    ELSE IF At(pat, q) = DOT
    THEN AppendUnit(pr, pat, q + 1, st0, la, "ST_ANY", 0, {}, TRUE)
    ELSE IF At(pat, q) = LBRACK
    THEN ClassUnit(pr, pat, q, st0, la, cs)
    ELSE IF At(pat, q) = STAR
    THEN Ctx(pr, q, st0, la, "false")
    ELSE AppendUnit(pr, pat, q + 1, st0, la, "ST_CHAR",
                    nfa_normalize(At(pat, q), cs), {}, TRUE)

\* the code after the loop: '$', trailing garbage, anchors, Match state
Finish(pr, pat, q, st0, la, sa) ==
    LET end_anchor == At(pat, q) = DOLLAR
        q1 == IF end_anchor THEN q + 1 ELSE q
    IN IF At(pat, q1) # NUL THEN [prog |-> pr, ok |-> FALSE]
       ELSE LET b   == IF sa THEN nfa_add_state(pr, "ST_BOL", 0, st0, -1)
                             ELSE [prog |-> pr, idx |-> st0]
                st1 == b.idx
            IN IF sa /\ b.idx < 0 THEN [prog |-> b.prog, ok |-> FALSE]
               ELSE LET m == nfa_add_state(b.prog, "ST_MATCH", 0, -1, -1) IN
                    IF m.idx < 0 THEN [prog |-> m.prog, ok |-> FALSE]
                    ELSE IF end_anchor
                    THEN LET e == nfa_add_state(m.prog, "ST_EOL", 0, m.idx, -1) IN
                         IF e.idx < 0 THEN [prog |-> e.prog, ok |-> FALSE]
                         ELSE IF la >= 0
                              THEN [prog |-> [nfa_patch(e.prog, la, e.idx)
                                                EXCEPT !.start_state = st1],
                                    ok |-> TRUE]
                              ELSE [prog |-> [e.prog EXCEPT !.start_state = e.idx],
                                    ok |-> TRUE]
                    ELSE IF la >= 0
                         THEN [prog |-> [nfa_patch(m.prog, la, m.idx)
                                           EXCEPT !.start_state = st1],
                               ok |-> TRUE]
                         ELSE [prog |-> [m.prog EXCEPT !.start_state = m.idx],
                               ok |-> TRUE]

(***************************************************************************)
(* Simulation                                                              *)
(***************************************************************************)
\* nfa_list_add without the capacity test
nfa_list_add_Unchecked(l, s) == Append(l, s)

nfa_list_add(l, s) == IF Len(l) < NFA_MAX_LIST THEN Append(l, s) ELSE l

\* nfa_add_epsilon that follows only the out edge of a Split
RECURSIVE nfa_add_epsilon_OutOnly(_, _, _, _, _)
nfa_add_epsilon_OutOnly(pr, l, s, at_bol, at_eol) ==
    IF s < 0 THEN l
    ELSE LET st == pr.states[s + 1] IN
         IF st.type = "ST_SPLIT"
         THEN nfa_add_epsilon_OutOnly(pr, l, st.out, at_bol, at_eol)
         ELSE IF st.type = "ST_BOL"
         THEN IF ~at_bol THEN l ELSE nfa_add_epsilon_OutOnly(pr, l, st.out, at_bol, at_eol)
         ELSE IF st.type = "ST_EOL"
         THEN IF ~at_eol THEN l ELSE nfa_add_epsilon_OutOnly(pr, l, st.out, at_bol, at_eol)
         ELSE nfa_list_add(l, s)

\* nfa_add_epsilon that passes a Begin-of-line state at every offset
RECURSIVE nfa_add_epsilon_IgnoreBol(_, _, _, _, _)
nfa_add_epsilon_IgnoreBol(pr, l, s, at_bol, at_eol) ==
    IF s < 0 THEN l
    ELSE LET st == pr.states[s + 1] IN
         IF st.type = "ST_SPLIT"
         THEN nfa_add_epsilon_IgnoreBol(pr,
                              IF st.out1 >= 0
                              THEN nfa_add_epsilon_IgnoreBol(pr, l, st.out1, at_bol, at_eol)
                              ELSE l,
                              st.out, at_bol, at_eol)
         ELSE IF st.type = "ST_BOL"
         THEN nfa_add_epsilon_IgnoreBol(pr, l, st.out, at_bol, at_eol)
         ELSE IF st.type = "ST_EOL"
         THEN IF ~at_eol THEN l ELSE nfa_add_epsilon_IgnoreBol(pr, l, st.out, at_bol, at_eol)
         ELSE nfa_list_add(l, s)

RECURSIVE nfa_add_epsilon(_, _, _, _, _)
nfa_add_epsilon(pr, l, s, at_bol, at_eol) ==
    IF s < 0 THEN l
    ELSE LET st == pr.states[s + 1] IN
         IF st.type = "ST_SPLIT"
         THEN nfa_add_epsilon(pr,
                              IF st.out1 >= 0
                              THEN nfa_add_epsilon(pr, l, st.out1, at_bol, at_eol)
                              ELSE l,
                              st.out, at_bol, at_eol)
         ELSE IF st.type = "ST_BOL"
         THEN IF ~at_bol THEN l ELSE nfa_add_epsilon(pr, l, st.out, at_bol, at_eol)
         ELSE IF st.type = "ST_EOL"
         THEN IF ~at_eol THEN l ELSE nfa_add_epsilon(pr, l, st.out, at_bol, at_eol)
         ELSE nfa_list_add(l, s)

\* for (i < cur->n): the passes lo..hi of the loop, in index order on the
\* same next list. The range is halved and the list of the first half is
\* evaluated before the second half is entered, which keeps the evaluation
\* shallow; a list never exceeds NFA_MAX_LIST, so the test changes nothing.
RECURSIVE StepFrom(_, _, _, _, _, _)
StepFrom(pr, c, byte, lo, hi, next) ==
    IF lo > hi THEN next
    ELSE IF lo = hi
    THEN LET st == pr.states[c[lo] + 1]
             takes == \/ st.type = "ST_CHAR" /\ byte = st.c
                      \/ st.type = "ST_ANY"
                      \/ st.type = "ST_CLASS" /\ nfa_cls_has(st.cls, byte)
         IN IF takes THEN nfa_list_add(next, st.out) ELSE next
    ELSE LET mid  == (lo + hi) \div 2
             half == StepFrom(pr, c, byte, lo, mid, next)
         IN IF Len(half) > NFA_MAX_LIST THEN half
            ELSE StepFrom(pr, c, byte, mid + 1, hi, half)

nfa_step(pr, c, byte) == StepFrom(pr, c, byte, 1, Len(c), <<>>)

nfa_has_match(pr, l) == \E i \in 1..Len(l) : pr.states[l[i] + 1].type = "ST_MATCH"

\* the closure loop with at_eol taken as true at every offset
RECURSIVE ClosureOf_AlwaysEol(_, _, _, _, _, _)
ClosureOf_AlwaysEol(pr, l, lo, hi, at_eol, closure) ==
    IF lo > hi THEN closure
    ELSE IF lo = hi THEN nfa_add_epsilon(pr, closure, l[lo], FALSE, TRUE)
    ELSE LET mid  == (lo + hi) \div 2
             half == ClosureOf_AlwaysEol(pr, l, lo, mid, at_eol, closure)
         IN IF Len(half) > NFA_MAX_LIST THEN half
            ELSE ClosureOf_AlwaysEol(pr, l, mid + 1, hi, at_eol, half)

\* for (i < l.n) nfa_add_epsilon(prog, &closure, l.idx[i], false, at_eol):
\* the passes lo..hi of the loop, in index order on the same closure list
\* (halved as in StepFrom)
RECURSIVE ClosureOf(_, _, _, _, _, _)
ClosureOf(pr, l, lo, hi, at_eol, closure) ==
    IF lo > hi THEN closure
    ELSE IF lo = hi THEN nfa_add_epsilon(pr, closure, l[lo], FALSE, at_eol)
    ELSE LET mid  == (lo + hi) \div 2
             half == ClosureOf(pr, l, lo, mid, at_eol, closure)
         IN IF Len(half) > NFA_MAX_LIST THEN half
            ELSE ClosureOf(pr, l, mid + 1, hi, at_eol, half)

NoMatch == [start |-> 0, end |-> 0, found |-> FALSE]

(***************************************************************************)
(* nfa_compile and nfa_search as functions of their arguments, for the     *)
(* callers that run them to completion (compile_pattern_rules,             *)
(* run_pattern_rules)                                                      *)
(***************************************************************************)
\* while (*p && *p != '$') ... then lines 196-220
RECURSIVE CompileLoop(_, _, _, _, _, _, _)
CompileLoop(pr, pat, q, st0, la, cs, anchor) ==
    IF At(pat, q) = NUL \/ At(pat, q) = DOLLAR
    THEN LET f == Finish(pr, pat, q, st0, la, anchor) IN
         [ok |-> f.ok, hang |-> FALSE, prog |-> f.prog]
    ELSE LET u == ParseUnit(pr, pat, q, st0, la, cs) IN
         IF u.st = "run"
         THEN CompileLoop(u.prog, pat, u.p, u.start, u.last, cs, anchor)
         ELSE [ok |-> FALSE, hang |-> u.st = "hang", prog |-> u.prog]

nfa_compile(pr, pat, cs) ==
    IF Len(pat) = 0
    THEN [ok |-> FALSE, hang |-> FALSE, prog |-> pr]
    ELSE CompileLoop([pr EXCEPT !.state_count = 0, !.case_sensitive = cs],
                     pat, IF At(pat, 0) = CARET THEN 1 ELSE 0, -1, -1, cs,
                     At(pat, 0) = CARET)

\* the inner loop from pos with active list c, then the end-of-string check
RECURSIVE SearchRun(_, _, _, _, _)
SearchRun(pr, s, sp, q, c) ==
    IF q < Len(s) /\ Len(c) > 0
    THEN LET byte    == nfa_normalize(s[q + 1], pr.case_sensitive)
             next    == nfa_step(pr, c, byte)
             closure == ClosureOf(pr, next, 1, Len(next), q = Len(s) - 1, <<>>)
         IN IF nfa_has_match(pr, closure)
            THEN [start |-> sp, end |-> q + 1, found |-> TRUE]
            ELSE SearchRun(pr, s, sp, q + 1, closure)
    ELSE IF Len(c) > 0 /\ nfa_has_match(pr, ClosureOf(pr, c, 1, Len(c), TRUE, <<>>))
    THEN [start |-> sp, end |-> Len(s), found |-> TRUE]
    ELSE NoMatch

\* for (start_pos = 0; start_pos < len; start_pos++)
RECURSIVE SearchFrom(_, _, _)
SearchFrom(pr, s, sp) ==
    IF sp >= Len(s) THEN NoMatch
    ELSE LET c0 == nfa_add_epsilon(pr, <<>>, pr.start_state, sp = 0, FALSE) IN
         IF nfa_has_match(pr, c0)
         THEN [start |-> sp, end |-> sp, found |-> TRUE]
         ELSE LET r == SearchRun(pr, s, sp, sp, c0) IN
              IF r.found THEN r ELSE SearchFrom(pr, s, sp + 1)

nfa_search(pr, s) == SearchFrom(pr, s, 0)

\* the stepwise actions below and the functions above run the same code
StepwiseAgrees ==
    /\ pc \in {"compiled", "failed"} =>
           LET f == nfa_compile(EmptyProg, pattern, case_sensitive) IN
           f.ok = ret /\ f.prog = prog /\ ~f.hang
    /\ pc = "done" => result = nfa_search(prog, str)

(***************************************************************************)
(* Actions: nfa_compile                                                    *)
(***************************************************************************)
\* lines 94-104: argument check, reset, leading '^'
CompileEnter ==
    /\ pc = "call"
    /\ IF Len(pattern) = 0
       THEN /\ pc' = "failed"
            /\ ret' = FALSE
            /\ UNCHANGED <<prog, compile_locals>>
       ELSE /\ prog' = [prog EXCEPT !.state_count = 0,
                                    !.case_sensitive = case_sensitive]
            /\ start_anchor' = (At(pattern, 0) = CARET)
            /\ p' = IF At(pattern, 0) = CARET THEN 1 ELSE 0
            /\ start' = -1
            /\ last' = -1
            /\ pc' = "parse"
            /\ UNCHANGED ret
    /\ UNCHANGED <<conc_vars, lint_vars, inputs, search_locals>>

\* one iteration of the parsing loop
CompileUnit ==
    /\ pc = "parse"
    /\ At(pattern, p) # NUL
    /\ At(pattern, p) # DOLLAR
    /\ LET u == ParseUnit(prog, pattern, p, start, last, case_sensitive) IN
         /\ prog' = u.prog
         /\ p' = u.p
         /\ start' = u.start
         /\ last' = u.last
         /\ pc' = IF u.st = "run" THEN "parse" ELSE IF u.st = "hang" THEN "hang" ELSE "failed"
         /\ ret' = IF u.st = "false" THEN FALSE ELSE ret
    /\ UNCHANGED <<conc_vars, lint_vars, inputs, start_anchor, search_locals>>

\* lines 196-220
CompileFinish ==
    /\ pc = "parse"
    /\ (At(pattern, p) = NUL \/ At(pattern, p) = DOLLAR)
    /\ LET f == Finish(prog, pattern, p, start, last, start_anchor) IN
         /\ prog' = f.prog
         /\ ret' = f.ok
         /\ pc' = IF f.ok THEN "compiled" ELSE "failed"
    /\ UNCHANGED <<conc_vars, lint_vars, inputs, compile_locals, search_locals>>

(***************************************************************************)
(* Actions: nfa_search (called only on a Program whose compile succeeded)  *)
(***************************************************************************)
SearchEnter ==
    /\ pc = "compiled"
    /\ result' = NoMatch
    /\ start_pos' = 0
    /\ pos' = 0
    /\ cur' = <<>>
    /\ pc' = "outer"
    /\ UNCHANGED <<conc_vars, lint_vars, inputs, prog, ret, compile_locals>>

\* head of the outer loop: initial closure and the zero-length check
SearchOuter ==
    /\ pc = "outer"
    /\ IF start_pos < Len(str)
       THEN LET c0 == nfa_add_epsilon(prog, <<>>, prog.start_state, start_pos = 0, FALSE) IN
              /\ cur' = c0
              /\ pos' = start_pos
              /\ IF nfa_has_match(prog, c0)
                 THEN /\ result' = [start |-> start_pos, end |-> start_pos, found |-> TRUE]
                      /\ pc' = "done"
                 ELSE /\ pc' = "inner"
                      /\ UNCHANGED result
       ELSE /\ pc' = "done"
            /\ UNCHANGED <<cur, pos, result>>
    /\ UNCHANGED <<conc_vars, lint_vars, inputs, prog, ret, compile_locals, start_pos>>

\* one pass of the inner loop (its exit test included)
SearchInner ==
    /\ pc = "inner"
    /\ IF pos < Len(str)
       THEN LET byte    == nfa_normalize(str[pos + 1], prog.case_sensitive)
                at_eol  == (pos = Len(str) - 1)
                next    == nfa_step(prog, cur, byte)
                closure == ClosureOf(prog, next, 1, Len(next), at_eol, <<>>)
            IN IF nfa_has_match(prog, closure)
               THEN /\ result' = [start |-> start_pos, end |-> pos + 1, found |-> TRUE]
                    /\ pc' = "done"
                    /\ UNCHANGED <<cur, pos>>
               ELSE /\ cur' = closure
                    /\ pos' = IF Len(closure) = 0 THEN pos ELSE pos + 1
                    /\ pc' = IF Len(closure) = 0 THEN "eol" ELSE "inner"
                    /\ UNCHANGED result
       ELSE /\ pc' = "eol"
            /\ UNCHANGED <<cur, pos, result>>
    /\ UNCHANGED <<conc_vars, lint_vars, inputs, prog, ret, compile_locals, start_pos>>

\* the end-of-string check after the inner loop, then start_pos++
SearchEol ==
    /\ pc = "eol"
    /\ LET eol_check == ClosureOf(prog, cur, 1, Len(cur), TRUE, <<>>) IN
       IF Len(cur) > 0 /\ nfa_has_match(prog, eol_check)
       THEN /\ result' = [start |-> start_pos, end |-> Len(str), found |-> TRUE]
            /\ pc' = "done"
            /\ UNCHANGED start_pos
       ELSE /\ start_pos' = start_pos + 1
            /\ pc' = "outer"
            /\ UNCHANGED result
    /\ UNCHANGED <<conc_vars, lint_vars, inputs, prog, ret, compile_locals, pos, cur>>

Next ==
    \/ CompileEnter
    \/ CompileUnit
    \/ CompileFinish
    \/ SearchEnter
    \/ SearchOuter
    \/ SearchInner
    \/ SearchEol

\* no concurrent call, linter not loaded
NoCalls == calls = <<>> /\ frames = <<>>

NoLint ==
    /\ g_api = FALSE
    /\ pattern_rules = <<>>
    /\ g_buffer_diags = <<>>
    /\ g_lint_source_file = <<>>
    /\ api = [unregister_command |-> TRUE, off |-> TRUE]
    /\ loaded = FALSE
    /\ buffers = <<>>
    /\ curbp = 0
    /\ registered = {}
    /\ message = <<>>
    /\ searched = {}
    /\ search_offset = 0

\* the state before nfa_compile(&prog, pattern, case_sensitive) is called
InitWith(I) ==
    /\ \E i \in I : /\ pattern = i.pattern
                    /\ case_sensitive = i.cs
                    /\ str = i.str
    /\ prog = EmptyProg
    /\ ret = FALSE
    /\ pc = "call"
    /\ p = 0
    /\ start = -1
    /\ last = -1
    /\ start_anchor = FALSE
    /\ start_pos = 0
    /\ pos = 0
    /\ cur = <<>>
    /\ result = NoMatch
    /\ NoCalls
    /\ NoLint

(***************************************************************************)
(* Inputs                                                                  *)
(***************************************************************************)
SeqsUpTo(S, n) == UNION {[1..k -> S] : k \in 0..n}

Input(pat, cs, s) == [pattern |-> pat, cs |-> cs, str |-> s]

MaxLitLen == 2
MaxLineLen == 3

\* 'a', 'b', 'A'
LitBytes == {97, 98, 65}

\* "TODO" and "// TODO: fix this"
PatTodo == <<84, 79, 68, 79>>
LineTodo == <<47, 47, 32, 84, 79, 68, 79, 58, 32, 102, 105, 120, 32, 116, 104, 105, 115>>

LitInputs ==
    {Input(pat, cs, s) : pat \in SeqsUpTo(LitBytes, MaxLitLen) \ {<<>>},
                         cs \in BOOLEAN,
                         s \in SeqsUpTo(LitBytes, MaxLineLen)}
    \cup {Input(PatTodo, cs, LineTodo) : cs \in BOOLEAN}

InitLit == InitWith(LitInputs)

SpecLit == InitLit /\ [][Next]_vars

Returned == pc = "done"

(***************************************************************************)
(* C1: a pattern of literal bytes only searches like a plain substring     *)
(* search: found iff the pattern occurs in the line, start the leftmost    *)
(* occurrence, end = start + length of the pattern, both sides lower-cased *)
(* when the program is case-insensitive.                                   *)
(***************************************************************************)
Meta == {DOT, STAR, LBRACK, CARET, DOLLAR, BACKSLASH}

LiteralOnly(pat) == Len(pat) > 0 /\ \A i \in 1..Len(pat) : pat[i] \notin Meta

Fold(c, cs) == IF ~cs /\ c >= 65 /\ c <= 90 THEN c + 32 ELSE c

OccursAt(pat, s, i, cs) ==
    /\ i + Len(pat) <= Len(s)
    /\ \A k \in 1..Len(pat) : Fold(s[i + k], cs) = Fold(pat[k], cs)

Occurrences(pat, s, cs) == {i \in 0..Len(s) : OccursAt(pat, s, i, cs)}

Leftmost(S) == CHOOSE i \in S : \A j \in S : i <= j

C1_LiteralIsSubstringSearch ==
    (Returned /\ LiteralOnly(pattern)) =>
        LET occ == Occurrences(pattern, str, case_sensitive) IN
        /\ result.found <=> occ # {}
        /\ result.found => /\ result.start = Leftmost(occ)
                           /\ result.end = result.start + Len(pattern)

C1_Witness ==
    /\ Returned
    /\ pattern = PatTodo
    /\ str = LineTodo
    /\ result = [start |-> 3, end |-> 7, found |-> TRUE]

(***************************************************************************)
(* Scenarios of the rule table and of the testable properties              *)
(***************************************************************************)
MaxScenLine == 3

\* "gets[ \t]*(" (pattern_rules, dangerous-gets) and "    gets(buf);"
PatGets == <<103, 101, 116, 115, LBRACK, SPACE, TAB, RBRACK, STAR, LPAREN>>
LineGets == <<SPACE, SPACE, SPACE, SPACE, 103, 101, 116, 115, LPAREN, 98, 117, 102, 41, 59>>

\* "^$"
PatEmptyLine == <<CARET, DOLLAR>>

\* "a*"
PatAStar == <<97, STAR>>

\* "[a-z]*" and "ABC123"
PatLowerStar == <<LBRACK, 97, MINUS, 122, RBRACK, STAR>>
LineABC == <<65, 66, 67, 49, 50, 51>>

ScenInputs ==
    {Input(pat, TRUE, s) : pat \in {PatEmptyLine, PatAStar},
                           s \in SeqsUpTo({97, 98}, MaxScenLine)}
    \cup {Input(PatGets, TRUE, LineGets), Input(PatLowerStar, FALSE, LineABC)}

InitScen == InitWith(ScenInputs)

SpecScen == InitScen /\ [][Next]_vars

(***************************************************************************)
(* C2: "gets[ \t]*(" on "    gets(buf);" returns start=4, end=9,           *)
(* found=true: the starred class in the middle matches zero bytes.         *)
(***************************************************************************)
C2_GetsScenario ==
    (Returned /\ pattern = PatGets /\ case_sensitive /\ str = LineGets) =>
        result = [start |-> 4, end |-> 9, found |-> TRUE]

(***************************************************************************)
(* C3: "^$" matches a line iff the line has length 0, then at start=0,     *)
(* end=0; on every line of length >= 1 it reports found=false.             *)
(***************************************************************************)
C3_EmptyLineOnly ==
    (Returned /\ pattern = PatEmptyLine /\ case_sensitive) =>
        /\ result.found <=> Len(str) = 0
        /\ result.found => (result.start = 0 /\ result.end = 0)

(***************************************************************************)
(* C4: "a*" matches at start=0, end=0 on the empty line, and at start=0,   *)
(* end=k on every line that begins with exactly k >= 0 copies of 'a'.      *)
(***************************************************************************)
LeadingAs(s) ==
    CHOOSE k \in 0..Len(s) : /\ \A i \in 1..k : s[i] = 97
                             /\ (k < Len(s) => s[k + 1] # 97)

C4_AStarLeadingRun ==
    (Returned /\ pattern = PatAStar /\ case_sensitive) =>
        result = [start |-> 0, end |-> LeadingAs(str), found |-> TRUE]

(***************************************************************************)
(* C5: "[a-z]*" case-insensitive on "ABC123" reports a match with a        *)
(* non-empty span covering "ABC" (start = 0, end >= 3).                    *)
(***************************************************************************)
LowerStarCase == Returned /\ pattern = PatLowerStar /\ ~case_sensitive /\ str = LineABC

C5_LowerStarCoversABC ==
    LowerStarCase => (result.found /\ result.start = 0 /\ result.end >= 3
                      /\ result.end > result.start)

\* C5 as amended: the match reported is the earliest-ending one at offset 0,
\* the empty span start=0, end=0, found=true.
C5_LowerStarEmptySpan ==
    LowerStarCase => result = [start |-> 0, end |-> 0, found |-> TRUE]

C5_Witness == LowerStarCase /\ result.found /\ prog.states[prog.start_state + 1].type = "ST_SPLIT"

(***************************************************************************)
(* Negated classes                                                         *)
(***************************************************************************)
MaxClsLen == 1
MaxClsLine == 2

\* 'a', 'A', 'b', '\n'
ClsBytes == {97, 65, 98, NL}

\* the members listed between "[^" and "]": single bytes, or one range
ClsBodies == (SeqsUpTo(ClsBytes, MaxClsLen) \ {<<>>}) \cup {<<97, MINUS, 98>>, <<98, MINUS, 65>>}

NegClass(body) == <<LBRACK, CARET>> \o body \o <<RBRACK>>

ClsInputs ==
    {Input(NegClass(body), cs, s) : body \in ClsBodies, cs \in BOOLEAN,
                                    s \in SeqsUpTo(ClsBytes \cup {99}, MaxClsLine)}

InitCls == InitWith(ClsInputs)

SpecCls == InitCls /\ [][Next]_vars

(***************************************************************************)
(* C6: a negated class [^...] never accepts the newline byte, in either    *)
(* case mode, and accepts every other byte that the class does not list    *)
(* (bytes compared after case folding when the program is insensitive):    *)
(* the class state's set is exactly the complement of the listed bytes     *)
(* without '\n', and nfa_search reports the leftmost accepted byte.        *)
(***************************************************************************)
BodyOf(pat) == SubSeq(pat, 3, Len(pat) - 1)

IsNegClass(pat) ==
    /\ Len(pat) >= 4
    /\ pat[1] = LBRACK /\ pat[2] = CARET /\ pat[Len(pat)] = RBRACK
    /\ BodyOf(pat) \in ClsBodies

Between(x, y) == {b \in Byte : (x <= b /\ b <= y) \/ (y <= b /\ b <= x)}

Listed(body, cs) ==
    IF Len(body) = 3 /\ body[2] = MINUS
    THEN Between(Fold(body[1], cs), Fold(body[3], cs))
    ELSE {Fold(body[i], cs) : i \in 1..Len(body)}

NegAccepts(pat, cs, b) ==
    Fold(b, cs) # NL /\ Fold(b, cs) \notin Listed(BodyOf(pat), cs)

C6_NegatedClassExcludesNewline ==
    /\ (pc = "compiled" /\ IsNegClass(pattern)) =>
        /\ prog.states[1].type = "ST_CLASS"
        /\ NL \notin prog.states[1].cls
        /\ prog.states[1].cls \cup {NL} = (Byte \ Listed(BodyOf(pattern), case_sensitive)) \cup {NL}
    /\ (Returned /\ IsNegClass(pattern)) =>
        LET acc == {i \in 0..Len(str) - 1 : NegAccepts(pattern, case_sensitive, str[i + 1])} IN
        /\ result.found <=> acc # {}
        /\ result.found => /\ result.start = Leftmost(acc)
                           /\ result.end = result.start + 1
                           /\ str[result.start + 1] # NL

\* a newline that the class does not list is skipped and a later byte matches
C6_Witness ==
    /\ Returned
    /\ IsNegClass(pattern)
    /\ NL \notin Listed(BodyOf(pattern), case_sensitive)
    /\ Len(str) = 2 /\ str[1] = NL
    /\ result = [start |-> 1, end |-> 2, found |-> TRUE]

(***************************************************************************)
(* Patterns byte by byte: malformed patterns and unsupported characters    *)
(***************************************************************************)
MaxMalLen == 3

\* 'a' and the characters with a meaning outside a class
MalBytes == {97, DOT, STAR, LBRACK, RBRACK, CARET, DOLLAR}

MalInputs ==
    {Input(pat, cs, <<97>>) : pat \in SeqsUpTo(MalBytes, MaxMalLen), cs \in BOOLEAN}

InitMal == InitWith(MalInputs)

SpecMal == InitMal /\ [][Next]_vars

Compiling == pc \in {"call", "parse"}

(***************************************************************************)
(* C7: nfa_compile returns false for every malformed pattern: the empty    *)
(* pattern, an unterminated class, an empty class "[]" or "[^]", a '*'     *)
(* with no preceding unit ("*abc", "^*"), a doubled star ("a**") and a     *)
(* '$' that is not the last character ("a$b").  The malformed part comes   *)
(* after an optional '^' and a run of plain literal bytes and dots.        *)
(***************************************************************************)
Anchored(pat) == IF At(pat, 0) = CARET THEN 1 ELSE 0

\* offsets i such that pat[0..i) is an optional '^' and then only plain
\* literals and dots
PlainPrefixes(pat) ==
    {i \in Anchored(pat)..Len(pat) :
        \A j \in Anchored(pat)..i - 1 : At(pat, j) \notin Meta \ {DOT}}

UnterminatedClass(pat, i) ==
    At(pat, i) = LBRACK /\ \A j \in i + 1..Len(pat) - 1 : At(pat, j) # RBRACK

EmptyClass(pat, i) ==
    /\ At(pat, i) = LBRACK
    /\ \/ At(pat, i + 1) = RBRACK
       \/ At(pat, i + 1) = CARET /\ At(pat, i + 2) = RBRACK

StrayStar(pat, i) == i = Anchored(pat) /\ At(pat, i) = STAR

DoubledStar(pat, i) == i > Anchored(pat) /\ At(pat, i) = STAR /\ At(pat, i + 1) = STAR

DollarNotLast(pat, i) == At(pat, i) = DOLLAR /\ i + 1 < Len(pat)

Malformed(pat) ==
    \/ Len(pat) = 0
    \/ \E i \in PlainPrefixes(pat) :
          \/ UnterminatedClass(pat, i)
          \/ EmptyClass(pat, i)
          \/ StrayStar(pat, i)
          \/ DoubledStar(pat, i)
          \/ DollarNotLast(pat, i)

C7_MalformedPatternFails ==
    (Malformed(pattern) /\ ~Compiling) => (pc = "failed" /\ ~ret)

\* "a**" was rejected at its second star, after the closure of 'a' was built
C7_Witness ==
    /\ pc = "failed"
    /\ pattern = <<97, STAR, STAR>>
    /\ prog.state_count = 2

MaxUnsLen == 2

\* '(' ')' '+' '?' '{' '|' '}'
Unsupported == {LPAREN, 41, 43, 63, 123, 124, 125}

UnsPatterns == SeqsUpTo(Unsupported \cup {97}, MaxUnsLen) \ {<<>>}

\* each pattern is searched on itself, on itself after an 'a', and on "a"
UnsInputs ==
    {Input(pat, TRUE, pre \o pat) : pat \in UnsPatterns, pre \in {<<>>, <<97>>}}
    \cup {Input(pat, TRUE, <<97>>) : pat \in UnsPatterns}

InitUns == InitWith(UnsInputs)

SpecUns == InitUns /\ [][Next]_vars

HasUnsupported(pat) == \E i \in 1..Len(pat) : pat[i] \in Unsupported

(***************************************************************************)
(* C8: nfa_compile returns false for every pattern that contains one of    *)
(* '|', '+', '?', '{', '}', '(' or ')' outside a class and unescaped; none *)
(* is compiled as a literal byte.                                          *)
(***************************************************************************)
C8_UnsupportedMetaFails ==
    (HasUnsupported(pattern) /\ LiteralOnly(pattern) /\ ~Compiling) => pc = "failed"

\* C8 as amended: each of these bytes, outside a class and unescaped, is
\* compiled as one Literal state for that byte; a pattern made of them and
\* of plain literals compiles and is searched as a plain substring.
C8_UnsupportedMetaIsLiteral ==
    (HasUnsupported(pattern) /\ LiteralOnly(pattern) /\ ~Compiling) =>
        /\ ret
        /\ prog.state_count = Len(pattern) + 1
        /\ prog.start_state = 0
        /\ \A i \in 1..Len(pattern) :
              /\ prog.states[i].type = "ST_CHAR"
              /\ prog.states[i].c = pattern[i]
              /\ prog.states[i].out = i
        /\ prog.states[Len(pattern) + 1].type = "ST_MATCH"
        /\ Returned =>
              LET occ == Occurrences(pattern, str, case_sensitive) IN
              /\ result.found <=> occ # {}
              /\ result.found => /\ result.start = Leftmost(occ)
                                 /\ result.end = result.start + Len(pattern)

\* "(+" found in "a(+"
C8_Witness ==
    /\ Returned
    /\ pattern = <<LPAREN, 43>>
    /\ str = <<97, LPAREN, 43>>
    /\ result = [start |-> 1, end |-> 3, found |-> TRUE]

(***************************************************************************)
(* Patterns at the capacity of the state array                             *)
(***************************************************************************)
CapUnder == 2
CapOver == 1

Rep(c, k) == [i \in 1..k |-> c]

\* "a*a*...": k starred literals
StarRep(k) == [i \in 1..2 * k |-> IF i % 2 = 1 THEN 97 ELSE STAR]

CapPatterns ==
    {pre \o Rep(97, k) \o post :
        k \in (NFA_MAX_STATES - 1 - CapUnder)..(NFA_MAX_STATES + CapOver),
        pre \in {<<>>, <<CARET>>}, post \in {<<>>, <<DOLLAR>>}}
    \cup {pre \o StarRep(k) :
             k \in (NFA_MAX_STATES \div 2 - 1)..(NFA_MAX_STATES \div 2 + CapOver),
             pre \in {<<>>, <<97>>}}

CapInputs == {Input(pat, TRUE, <<97>>) : pat \in CapPatterns}

InitCap == InitWith(CapInputs)

SpecCap == InitCap /\ [][Next]_vars

\* every byte of such a pattern is one state ('^' Begin-of-line, 'a' Literal,
\* '*' Split, '$' End-of-line), and the Match state is one more
Needed(pat) == Len(pat) + 1

(***************************************************************************)
(* C9: a pattern that needs more states than NFA_MAX_STATES makes          *)
(* nfa_compile return false instead of truncating: state_count never       *)
(* exceeds NFA_MAX_STATES, no state is written at an index >=              *)
(* NFA_MAX_STATES, and nfa_compile returns true only if every unit, the    *)
(* anchors and the Match state were all allocated.                         *)
(***************************************************************************)
C9_CapacityFailsCleanly ==
    /\ prog.state_count <= NFA_MAX_STATES
    /\ Len(prog.states) <= NFA_MAX_STATES
    /\ Len(prog.states) = prog.state_count
    /\ (~Compiling /\ pattern \in CapPatterns) =>
          /\ Needed(pattern) > NFA_MAX_STATES => (pc = "failed" /\ ~ret)
          /\ Needed(pattern) <= NFA_MAX_STATES => ret
          /\ ret => prog.state_count = Needed(pattern)

\* 512 literals fill the array: the Match state cannot be allocated
C9_Witness ==
    /\ pc = "failed"
    /\ pattern = Rep(97, NFA_MAX_STATES)
    /\ prog.state_count = NFA_MAX_STATES
    /\ p = Len(pattern)

(***************************************************************************)
(* Patterns built from units, with optional anchors                        *)
(***************************************************************************)
MaxUnits == 2
MaxGenLine == 3

\* a  b  .  a*  [^a]*
Units == {<<97>>, <<98>>, <<DOT>>, <<97, STAR>>, <<LBRACK, CARET, 97, RBRACK, STAR>>}

RECURSIVE UnitSeqs(_)
UnitSeqs(n) ==
    IF n = 0 THEN {<<>>}
    ELSE UnitSeqs(n - 1) \cup {w \o u : w \in UnitSeqs(n - 1), u \in Units}

GenPatterns ==
    {pre \o w \o post : w \in UnitSeqs(MaxUnits),
                        pre \in {<<>>, <<CARET>>}, post \in {<<>>, <<DOLLAR>>}}

GenInputs ==
    {Input(pat, TRUE, s) : pat \in GenPatterns, s \in SeqsUpTo({97, 98}, MaxGenLine)}

InitGen == InitWith(GenInputs)

SpecGen == InitGen /\ [][Next]_vars

(***************************************************************************)
(* The language of a compiled graph, by sets of states: a span [from, to)  *)
(* of the line is accepted when the Match state is among the states        *)
(* reachable from start_state by consuming exactly the bytes of the span,  *)
(* a Begin-of-line edge being passable at offset 0 only and an End-of-line *)
(* edge at offset len only.                                                *)
(***************************************************************************)
EpsSucc(pr, s, off, len) ==
    LET st == pr.states[s + 1] IN
    IF st.type = "ST_SPLIT" THEN {st.out, st.out1} \ {-1}
    ELSE IF st.type = "ST_BOL" THEN (IF off = 0 THEN {st.out} \ {-1} ELSE {})
    ELSE IF st.type = "ST_EOL" THEN (IF off = len THEN {st.out} \ {-1} ELSE {})
    ELSE {}

RECURSIVE EpsReach(_, _, _, _)
EpsReach(pr, S, off, len) ==
    LET T == S \cup UNION {EpsSucc(pr, s, off, len) : s \in S} IN
    IF T = S THEN S ELSE EpsReach(pr, T, off, len)

Resting(pr, S, off, len) ==
    {s \in EpsReach(pr, S, off, len) :
        pr.states[s + 1].type \in {"ST_CHAR", "ST_ANY", "ST_CLASS", "ST_MATCH"}}

Consumes(st, b) ==
    \/ st.type = "ST_CHAR" /\ st.c = b
    \/ st.type = "ST_ANY"
    \/ st.type = "ST_CLASS" /\ b \in st.cls

Move(pr, S, b) ==
    {pr.states[s + 1].out : s \in {x \in S : Consumes(pr.states[x + 1], b)}} \ {-1}

RECURSIVE ReachAfter(_, _, _, _)
ReachAfter(pr, s, from, to) ==
    IF to = from
    THEN Resting(pr, {pr.start_state}, from, Len(s))
    ELSE Resting(pr, Move(pr, ReachAfter(pr, s, from, to - 1),
                          Fold(s[to], pr.case_sensitive)),
                 to, Len(s))

GraphAccepts(pr, s, from, to) ==
    \E m \in ReachAfter(pr, s, from, to) : pr.states[m + 1].type = "ST_MATCH"

EndsFrom(pr, s, from) == {e \in from..Len(s) : GraphAccepts(pr, s, from, e)}

(***************************************************************************)
(* C10: with no active list overflowing, nfa_search returns the leftmost,  *)
(* earliest-ending match of the compiled graph: start is the smallest      *)
(* offset in 0..len-1 from which the Match state can be reached, end the   *)
(* smallest end reachable from that start, and found=false is returned     *)
(* only if no start offset in 0..len-1 reaches the Match state.            *)
(***************************************************************************)
C10_LeftmostEarliestMatch ==
    Returned =>
        LET starts == {i \in 0..Len(str) - 1 : EndsFrom(prog, str, i) # {}} IN
        /\ result.found <=> starts # {}
        /\ result.found => /\ result.start = Leftmost(starts)
                           /\ result.end = Leftmost(EndsFrom(prog, str, result.start))

\* a match that starts after offset 0 and ends after consuming two bytes
\* through the closure of a starred unit
C10_Witness ==
    /\ Returned
    /\ \E i \in 1..prog.state_count : prog.states[i].type = "ST_SPLIT"
    /\ result.found
    /\ result.start > 0
    /\ result.end >= result.start + 2
    /\ Len(cur) < NFA_MAX_LIST

(***************************************************************************)
(* C11: for every pattern with a leading '^', every match reported by      *)
(* nfa_search has start = 0: Begin-of-line holds only at start_pos 0 of    *)
(* the scanned line, never at a later start offset.                        *)
(***************************************************************************)
StartAnchored(pat) == At(pat, 0) = CARET

C11_CaretMatchesAtLineStartOnly ==
    /\ (Returned /\ StartAnchored(pattern) /\ result.found) => result.start = 0
    /\ (pc \in {"inner", "eol"} /\ StartAnchored(pattern) /\ start_pos > 0
        /\ prog.states[prog.start_state + 1].type = "ST_BOL") => cur = <<>>

\* "^b" on "ab": the 'b' at offset 1 is not a match
C11_Witness ==
    /\ Returned
    /\ pattern = <<CARET, 98>>
    /\ str = <<97, 98>>
    /\ ~result.found
    /\ start_pos = 2

(***************************************************************************)
(* C12: a pattern ending in an unescaped '$' is anchored to the true end   *)
(* of the line: every match reported has end = len, and for a literal-only *)
(* body L the pattern L$ is found iff the line ends with L, with           *)
(* start = len - |L|.                                                      *)
(***************************************************************************)
EndAnchored(pat) ==
    /\ Len(pat) >= 1
    /\ pat[Len(pat)] = DOLLAR
    /\ (Len(pat) >= 2 => pat[Len(pat) - 1] # BACKSLASH)

BodyBeforeDollar(pat) == SubSeq(pat, 1, Len(pat) - 1)

C12_DollarMatchesAtLineEndOnly ==
    (Returned /\ EndAnchored(pattern)) =>
        /\ result.found => result.end = Len(str)
        /\ LiteralOnly(BodyBeforeDollar(pattern)) =>
              LET L == BodyBeforeDollar(pattern) IN
              /\ result.found <=> (Len(str) >= Len(L)
                                   /\ OccursAt(L, str, Len(str) - Len(L), case_sensitive))
              /\ result.found => result.start = Len(str) - Len(L)

\* "a$" on "aba": the 'a' at offset 0 is passed over, the last one matches
C12_Witness ==
    /\ Returned
    /\ pattern = <<97, DOLLAR>>
    /\ str = <<97, 98, 97>>
    /\ result = [start |-> 2, end |-> 3, found |-> TRUE]

(***************************************************************************)
(* C17: for a starred unit X* the compiler builds Split -> {X,             *)
(* continuation} with X looping back to the Split; if X is the first unit  *)
(* the Split is the program entry, otherwise the edge of the state         *)
(* preceding X is patched to the Split (not to X), so that X* accepts zero *)
(* repetitions in every position of the pattern.                           *)
(***************************************************************************)
\* the edge a state hands to the fragment that follows it
Dangling(st) == IF st.type = "ST_SPLIT" THEN st.out1 ELSE st.out

\* 0-based indices of the Split states; the starred unit X of Split s is s-1
Splits(pr) == {s \in 0..pr.state_count - 1 : pr.states[s + 1].type = "ST_SPLIT"}

BodyEntry(pr) ==
    IF pr.states[pr.start_state + 1].type = "ST_BOL"
    THEN pr.states[pr.start_state + 1].out
    ELSE pr.start_state

C17_StarIsZeroOrMore ==
    pc = "compiled" =>
        \A s \in Splits(prog) :
            /\ prog.states[s + 1].out = s - 1
            /\ prog.states[s].out = s
            /\ IF s - 1 = 0
               THEN BodyEntry(prog) = s
               ELSE Dangling(prog.states[s - 1]) = s

(***************************************************************************)
(* C18: epsilon closure does not re-add duplicates: after every closure    *)
(* expansion in nfa_search the active list holds each state index at most  *)
(* once, so its length never exceeds the program's state_count.            *)
(***************************************************************************)
NoDuplicates(l) == \A i, j \in 1..Len(l) : l[i] = l[j] => i = j

C18_ActiveListHasNoDuplicates ==
    pc \in {"inner", "eol", "done"} =>
        (NoDuplicates(cur) /\ Len(cur) <= prog.state_count)

(***************************************************************************)
(* C20: after every successful nfa_compile the graph has no dangling edge: *)
(* every state reachable from start_state, except the Match state, has out *)
(* (and out1 for a Split) set to a valid index in 0..state_count-1; there  *)
(* is exactly one Match state and it is reachable from start_state.        *)
(***************************************************************************)
ValidIndex(pr, s) == s >= 0 /\ s < pr.state_count

Edges(pr, s) ==
    LET st == pr.states[s + 1] IN
    IF st.type = "ST_MATCH" THEN {}
    ELSE IF st.type = "ST_SPLIT" THEN {st.out, st.out1}
    ELSE {st.out}

RECURSIVE GraphReach(_, _)
GraphReach(pr, S) ==
    LET T == S \cup {t \in UNION {Edges(pr, s) : s \in S} : ValidIndex(pr, t)} IN
    IF T = S THEN S ELSE GraphReach(pr, T)

Matches(pr) == {s \in 0..pr.state_count - 1 : pr.states[s + 1].type = "ST_MATCH"}

C20_NoDanglingEdge ==
    (ret /\ ~Compiling) =>
        /\ ValidIndex(prog, prog.start_state)
        /\ LET R == GraphReach(prog, {prog.start_state}) IN
           /\ \A s \in R : \A t \in Edges(prog, s) : ValidIndex(prog, t)
           /\ Cardinality(Matches(prog)) = 1
           /\ Matches(prog) \subseteq R

\* a compiled graph with a Split whose both edges were patched and an
\* End-of-line state
C20_Witness ==
    /\ pc = "compiled"
    /\ pattern = <<98, 97, STAR, DOLLAR>>
    /\ prog.state_count = 5
    /\ prog.states[3].out1 = 4

(***************************************************************************)
(* Runs of starred units on runs of one byte: the active lists grow by one *)
(* entry per epsilon path and reach NFA_MAX_LIST                           *)
(***************************************************************************)
MaxStars == 7
MaxOvfLine == 11

RECURSIVE AStars(_)
AStars(k) == IF k = 0 THEN <<>> ELSE AStars(k - 1) \o <<97, STAR>>

RECURSIVE ARun(_)
ARun(n) == IF n = 0 THEN <<>> ELSE Append(ARun(n - 1), 97)

OvfInputs ==
    {Input(AStars(k) \o post, TRUE, ARun(n) \o tail) :
        k \in {MaxStars - 1, MaxStars}, post \in {<<>>, <<DOLLAR>>},
        n \in {MaxOvfLine - 1, MaxOvfLine}, tail \in {<<>>, <<98>>}}

InitOvf == InitWith(OvfInputs)

SpecOvf == InitOvf /\ [][Next]_vars

(***************************************************************************)
(* C19: active-list overflow is a soft degradation: in every reachable     *)
(* state of a search the list holds at most NFA_MAX_LIST entries, an       *)
(* addition to a full list is dropped, and every span nfa_search reports   *)
(* is a span the compiled graph accepts.                                   *)
(***************************************************************************)
C19_OverflowIsSoftDegradation ==
    /\ Len(cur) <= NFA_MAX_LIST
    /\ \A i \in 1..Len(cur) : ValidIndex(prog, cur[i])
    /\ (Returned /\ result.found) =>
           GraphAccepts(prog, str, result.start, result.end)

\* a full list with a byte still to consume: each of its NFA_MAX_LIST
\* entries steps to a Split whose closure adds two states, so additions
\* are dropped in the next closure
C19_Witness ==
    /\ pc = "inner"
    /\ Len(cur) = NFA_MAX_LIST
    /\ pos < Len(str)
    /\ Len(nfa_step(prog, cur, str[pos + 1])) = NFA_MAX_LIST

(***************************************************************************)
(* Several nfa_search calls on one compiled Program.  Each call runs the   *)
(* code of nfa_search on its own line; between two steps of one call any   *)
(* step of another call may run.  The lists cur and next are automatic     *)
(* variables of nfa_search (lint.c:286): call t has them in its own frame. *)
(***************************************************************************)
Calls == {1, 2}

\* all calls use one storage for their lists (static instead of automatic)
Frame_Static(t) == 1

Frame(t) == t

CallEnter(t) ==
    /\ calls[t].pc = "ready"
    /\ calls' = [calls EXCEPT ![t].pc = "outer", ![t].result = NoMatch,
                              ![t].start_pos = 0, ![t].pos = 0]
    /\ frames' = [frames EXCEPT ![Frame(t)] = <<>>]
    /\ UNCHANGED <<lint_vars, inputs, prog, ret, pc, compile_locals, search_locals>>

CallOuter(t) ==
    /\ calls[t].pc = "outer"
    /\ LET c == calls[t] IN
       IF c.start_pos < Len(c.str)
       THEN LET c0 == nfa_add_epsilon(prog, <<>>, prog.start_state, c.start_pos = 0, FALSE) IN
              /\ frames' = [frames EXCEPT ![Frame(t)] = c0]
              /\ IF nfa_has_match(prog, c0)
                 THEN calls' = [calls EXCEPT ![t].pos = c.start_pos, ![t].pc = "done",
                                   ![t].result = [start |-> c.start_pos,
                                                  end |-> c.start_pos, found |-> TRUE]]
                 ELSE calls' = [calls EXCEPT ![t].pos = c.start_pos, ![t].pc = "inner"]
       ELSE /\ calls' = [calls EXCEPT ![t].pc = "done"]
            /\ UNCHANGED frames
    /\ UNCHANGED <<lint_vars, inputs, prog, ret, pc, compile_locals, search_locals>>

CallInner(t) ==
    /\ calls[t].pc = "inner"
    /\ LET c == calls[t] IN
       IF c.pos < Len(c.str)
       THEN LET byte    == nfa_normalize(c.str[c.pos + 1], prog.case_sensitive)
                at_eol  == (c.pos = Len(c.str) - 1)
                next    == nfa_step(prog, frames[Frame(t)], byte)
                closure == ClosureOf(prog, next, 1, Len(next), at_eol, <<>>)
            IN IF nfa_has_match(prog, closure)
               THEN /\ calls' = [calls EXCEPT ![t].pc = "done",
                                     ![t].result = [start |-> c.start_pos,
                                                    end |-> c.pos + 1, found |-> TRUE]]
                    /\ UNCHANGED frames
               ELSE /\ frames' = [frames EXCEPT ![Frame(t)] = closure]
                    /\ calls' = [calls EXCEPT
                                   ![t].pos = IF Len(closure) = 0 THEN c.pos ELSE c.pos + 1,
                                   ![t].pc = IF Len(closure) = 0 THEN "eol" ELSE "inner"]
       ELSE /\ calls' = [calls EXCEPT ![t].pc = "eol"]
            /\ UNCHANGED frames
    /\ UNCHANGED <<lint_vars, inputs, prog, ret, pc, compile_locals, search_locals>>

CallEol(t) ==
    /\ calls[t].pc = "eol"
    /\ LET c         == calls[t]
           l         == frames[Frame(t)]
           eol_check == ClosureOf(prog, l, 1, Len(l), TRUE, <<>>)
       IN IF Len(l) > 0 /\ nfa_has_match(prog, eol_check)
          THEN calls' = [calls EXCEPT ![t].pc = "done",
                            ![t].result = [start |-> c.start_pos,
                                           end |-> Len(c.str), found |-> TRUE]]
          ELSE calls' = [calls EXCEPT ![t].start_pos = c.start_pos + 1, ![t].pc = "outer"]
    /\ UNCHANGED <<frames, lint_vars, inputs, prog, ret, pc, compile_locals, search_locals>>

NextConc ==
    \E t \in Calls :
        \/ CallEnter(t)
        \/ CallOuter(t)
        \/ CallInner(t)
        \/ CallEol(t)

MaxConcLine == 2

\* ab  a*b$  ^a.  [^a]*b
ConcPatterns == {<<97, 98>>, <<97, STAR, 98, DOLLAR>>, <<CARET, 97, DOT>>,
                 <<LBRACK, CARET, 97, RBRACK, STAR, 98>>}

ConcLines == SeqsUpTo({97, 98}, MaxConcLine)

\* the Program has been compiled; every call is about to enter nfa_search
InitConc ==
    /\ pattern \in ConcPatterns
    /\ case_sensitive = TRUE
    /\ str = <<>>
    /\ prog = nfa_compile(EmptyProg, pattern, case_sensitive).prog
    /\ ret = TRUE
    /\ pc = "shared"
    /\ p = 0
    /\ start = -1
    /\ last = -1
    /\ start_anchor = FALSE
    /\ start_pos = 0
    /\ pos = 0
    /\ cur = <<>>
    /\ result = NoMatch
    /\ calls \in [Calls -> {[str |-> s, pc |-> "ready", start_pos |-> 0, pos |-> 0,
                             result |-> NoMatch] : s \in ConcLines}]
    /\ frames = [t \in Calls |-> <<>>]
    /\ NoLint

SpecConc == InitConc /\ [][NextConc]_vars

(***************************************************************************)
(* C13: a compiled Program can be shared by several nfa_search calls that  *)
(* run concurrently on different lines or the same line: each call uses    *)
(* only its own active lists, no call writes the Program, and under every  *)
(* interleaving each call returns the Match it returns when run alone.     *)
(***************************************************************************)
C13_ConcurrentSearchesAgree ==
    /\ prog = nfa_compile(EmptyProg, pattern, case_sensitive).prog
    /\ \A t \in Calls :
          calls[t].pc = "done" => calls[t].result = nfa_search(prog, calls[t].str)

\* one call has returned a match while the other one, on another line, is in
\* its inner loop with a non-empty active list
C13_Witness ==
    /\ calls[1].pc = "done"
    /\ calls[1].result.found
    /\ calls[2].pc = "inner"
    /\ frames[2] # <<>>
    /\ calls[1].str # calls[2].str

(***************************************************************************)
(* nfa_compile into a Program object that was compiled before: the entries *)
(* of states behind the new state_count, start_state and the fields of the *)
(* reused entries are what the earlier call left                           *)
(***************************************************************************)
MaxReUnits == 1
MaxReLine == 2

\* a*b  [ab]*a$  ^b.  and the rejected a** (a failed compile leaves its states)
PrevPatterns == {<<97, STAR, 98>>,
                 <<LBRACK, 97, 98, RBRACK, STAR, 97, DOLLAR>>,
                 <<CARET, 98, DOT>>,
                 <<97, STAR, STAR>>}

RePatterns == {w \o post : w \in UnitSeqs(MaxReUnits), post \in {<<>>, <<DOLLAR>>}}
              \cup PrevPatterns

ReLines == SeqsUpTo({97, 98}, MaxReLine)

InitRe ==
    /\ pattern \in RePatterns
    /\ case_sensitive \in BOOLEAN
    /\ str \in ReLines
    /\ \E prev \in PrevPatterns, cs \in BOOLEAN :
           prog = nfa_compile(EmptyProg, prev, cs).prog
    /\ ret = FALSE
    /\ pc = "call"
    /\ p = 0
    /\ start = -1
    /\ last = -1
    /\ start_anchor = FALSE
    /\ start_pos = 0
    /\ pos = 0
    /\ cur = <<>>
    /\ result = NoMatch
    /\ NoCalls
    /\ NoLint

SpecRe == InitRe /\ [][Next]_vars

(***************************************************************************)
(* C15: compilation is deterministic: compiling the same pattern with the  *)
(* same case flag twice, also into a Program object that previously held   *)
(* another compiled pattern, yields programs that return identical Match   *)
(* results for every line.                                                 *)
(***************************************************************************)
Fresh == nfa_compile(EmptyProg, pattern, case_sensitive)

C15_CompileIsDeterministic ==
    /\ pc \in {"compiled", "failed"} => ret = Fresh.ok
    /\ pc = "compiled" =>
           \A s \in ReLines : nfa_search(prog, s) = nfa_search(Fresh.prog, s)
    /\ Returned => result = nfa_search(Fresh.prog, str)

\* a Program compiled over a longer one and searched: an entry of the earlier
\* graph lies behind state_count
C15_Witness ==
    /\ Returned
    /\ result.found
    /\ pattern = <<97, STAR, 98>>
    /\ Len(prog.states) > prog.state_count
    /\ prog.states[5].type = "ST_EOL"
    /\ prog.states # Fresh.prog.states

(***************************************************************************)
(* The linter on top of the engine (lint.c:450-1229).  A pointer is        *)
(* NullPtr or Ptr(v); a struct buffer * is the index of the buffer in      *)
(* buffers; g_buffer_diags holds the g_buffer_count entries in use, and    *)
(* diags of an entry its count diagnostics in use.                         *)
(***************************************************************************)
COMMA == 44
MAX_DIAGNOSTICS == 1024
MAX_BUFFERS == 64

LINT_ERROR == 1
LINT_WARNING == 2
LINT_INFO == 3
LINT_HINT == 4

\* "*lint*"
LINT_BUFFER_NAME == <<42, 108, 105, 110, 116, 42>>

NullPtr == [null |-> TRUE]
Ptr(v) == [null |-> FALSE, at |-> v]

Least(S) == CHOOSE i \in S : \A j \in S : i <= j

g_buffer_count == Len(g_buffer_diags)

\* returns the list with the entry of bp (created when missing) and its
\* index; idx 0 is the NULL return
get_buffer_diags(gbd, bp) ==
    LET found == {i \in 1..Len(gbd) : gbd[i].bp = bp} IN
    IF found # {} THEN [list |-> gbd, idx |-> Least(found)]
    ELSE IF Len(gbd) >= MAX_BUFFERS THEN [list |-> gbd, idx |-> 0]
    ELSE [list |-> Append(gbd, [bp |-> bp, diags |-> <<>>, cursor |-> 0]),
          idx  |-> Len(gbd) + 1]

add_diagnostic(gbd, bp, d) ==
    LET g == get_buffer_diags(gbd, bp) IN
    IF g.idx = 0 \/ Len(g.list[g.idx].diags) >= MAX_DIAGNOSTICS THEN g.list
    ELSE [g.list EXCEPT ![g.idx].diags = Append(@, d)]

clear_buffer_diags(gbd, bp) ==
    LET g == get_buffer_diags(gbd, bp) IN
    IF g.idx = 0 THEN g.list
    ELSE [g.list EXCEPT ![g.idx].diags = <<>>, ![g.idx].cursor = 0]

clear_source_diags(gbd, bp, source) ==
    LET g == get_buffer_diags(gbd, bp) IN
    IF g.idx = 0 THEN g.list
    ELSE LET kept == SelectSeq(g.list[g.idx].diags, LAMBDA d : d.source # source)
             c    == g.list[g.idx].cursor
         IN [g.list EXCEPT ![g.idx].diags = kept,
                           ![g.idx].cursor = IF c >= Len(kept)
                                             THEN (IF Len(kept) > 0 THEN Len(kept) - 1 ELSE 0)
                                             ELSE c]

diag_compare(a, b) == IF a.line # b.line THEN a.line - b.line ELSE a.col - b.col

Without(ds, i) == SubSeq(ds, 1, i - 1) \o SubSeq(ds, i + 1, Len(ds))

\* the orders qsort may leave: sorted by diag_compare, elements that compare
\* equal in any order
RECURSIVE SortedOrders(_)
SortedOrders(ds) ==
    IF Len(ds) = 0 THEN {<<>>}
    ELSE LET firsts == {i \in 1..Len(ds) :
                           \A j \in 1..Len(ds) : diag_compare(ds[i], ds[j]) <= 0}
         IN UNION {{<<ds[i]>> \o rest : rest \in SortedOrders(Without(ds, i))} : i \in firsts}

\* the set of lists sort_diagnostics may leave
sort_diagnostics(gbd, bp) ==
    LET g == get_buffer_diags(gbd, bp) IN
    IF g.idx = 0 \/ Len(g.list[g.idx].diags) <= 1 THEN {g.list}
    ELSE {[g.list EXCEPT ![g.idx].diags = o] : o \in SortedOrders(g.list[g.idx].diags)}

\* for every rule of the table: nfa_compile(&r->compiled, r->pattern, true)
compile_pattern_rules(rules) ==
    [i \in 1..Len(rules) |->
        LET c == nfa_compile(rules[i].compiled, rules[i].pattern, TRUE) IN
        [rules[i] EXCEPT !.compiled = c.prog, !.valid = c.ok]]

free_pattern_rules(rules) ==
    [i \in 1..Len(rules) |-> [rules[i] EXCEPT !.valid = FALSE]]

\* the comma-separated list from offset q (1-based) on
RECURSIVE TypesLoop(_, _, _)
TypesLoop(ft, q, ext) ==
    IF q > Len(ft) THEN FALSE
    ELSE LET commas == {i \in q..Len(ft) : ft[i] = COMMA}
             end    == IF commas = {} THEN 0 ELSE Least(commas)
             len    == IF end = 0 THEN Len(ft) - q + 1 ELSE end - q
         IN IF SubSeq(ft, q, q + len - 1) = ext THEN TRUE
            ELSE IF end = 0 THEN FALSE
            ELSE TypesLoop(ft, end + 1, ext)

matches_filetype(filename, filetypes) ==
    IF filetypes.null \/ filename.null THEN TRUE
    ELSE LET dots == {i \in 1..Len(filename.at) : filename.at[i] = DOT} IN
         IF dots = {} THEN FALSE
         ELSE LET dot == CHOOSE i \in dots : \A j \in dots : j <= i
              IN TypesLoop(filetypes.at, 1,
                           SubSeq(filename.at, dot + 1, Len(filename.at)))

\* run_pattern_rules that searches a rule whatever its valid flag says
RuleRuns_IgnoreValid(r, filename) == matches_filetype(filename, r.filetypes)

\* if (!r->valid) continue; if (!matches_filetype(...)) continue;
RuleRuns(r, filename) == r.valid /\ matches_filetype(filename, r.filetypes)

\* the step of search_offset without the minimum of one character
Advance_NoMinimum(match) == match.end

\* search_offset += match.end > match.start ? match.end : match.start + 1
Advance(match) == IF match.end > match.start THEN match.end ELSE match.start + 1

\* the diagnostic recorded for a match of rule r found from offset off
PatternDiag(r, line_num, off, match) ==
    [line |-> line_num,
     col |-> off + match.start,
     end_col |-> off + match.end,
     severity |-> r.severity,
     source |-> "pattern",
     message |-> <<r.name, ": ", r.message>>]

\* while (search_offset < line_len), with off the value of search_offset:
\* acc holds the diagnostics list and the nfa_search calls made so far
RECURSIVE RunMatches(_, _, _, _, _, _, _)
RunMatches(acc, r, i, line, line_num, off, bp) ==
    IF off >= Len(line) THEN acc
    ELSE LET match  == nfa_search(r.compiled, SubSeq(line, off + 1, Len(line)))
             called == acc.calls \cup {[rule |-> i, valid |-> r.valid]}
         IN IF ~match.found THEN [list |-> acc.list, calls |-> called]
            ELSE RunMatches(
                   [list  |-> add_diagnostic(acc.list, bp,
                                             PatternDiag(r, line_num, off, match)),
                    calls |-> called],
                   r, i, line, line_num, off + Advance(match), bp)

\* for (i = 0; pattern_rules[i].name != NULL; i++) on one line.  The result
\* of rule i is evaluated before rule i + 1 is entered, which keeps the
\* evaluation shallow; the list never has more than MAX_BUFFERS entries, so
\* the test changes nothing.
RECURSIVE RunRules(_, _, _, _, _, _, _)
RunRules(acc, rules, i, line, line_num, filename, bp) ==
    IF i > Len(rules) THEN acc
    ELSE LET after == IF RuleRuns(rules[i], filename)
                      THEN RunMatches(acc, rules[i], i, line, line_num, 0, bp)
                      ELSE acc
         IN IF Len(after.list) > MAX_BUFFERS THEN after
            ELSE RunRules(after, rules, i + 1, line, line_num, filename, bp)

\* while (line_start < end), line_start a 0-based offset into contents
\* (evaluated line by line as in RunRules)
RECURSIVE RunLines(_, _, _, _, _, _, _)
RunLines(acc, rules, contents, line_start, line_num, filename, bp) ==
    IF line_start >= Len(contents) THEN acc
    ELSE LET nls      == {i \in line_start..Len(contents) - 1 : contents[i + 1] = NL}
             line_end == IF nls = {} THEN Len(contents) ELSE Least(nls)
             line     == SubSeq(contents, line_start + 1, line_end)
             after    == RunRules(acc, rules, 1, line, line_num, filename, bp)
         IN IF Len(after.list) > MAX_BUFFERS THEN after
            ELSE RunLines(after, rules, contents,
                          IF line_end < Len(contents) THEN line_end + 1 ELSE Len(contents),
                          line_num + 1, filename, bp)

\* returns the diagnostics list and the nfa_search calls made
run_pattern_rules(gbd, rules, bufs, bp, have_api) ==
    IF ~have_api THEN [list |-> gbd, calls |-> {}]
    ELSE RunLines([list |-> clear_source_diags(gbd, bp, "pattern"), calls |-> {}],
                  rules, bufs[bp].contents, 0, 1, bufs[bp].filename, bp)

\* the severity switch of the two event handlers
EventSeverity(sev) ==
    IF sev \in {LINT_ERROR, LINT_WARNING, LINT_INFO, LINT_HINT} THEN sev ELSE LINT_INFO

RECURSIVE AddAll(_, _, _, _)
AddAll(gbd, bp, ds, i) ==
    IF i > Len(ds) THEN gbd
    ELSE AddAll(add_diagnostic(gbd, bp, ds[i]), bp, ds, i + 1)

(***************************************************************************)
(* Actions: the entry points the editor calls                              *)
(***************************************************************************)
engine_vars == <<inputs, prog, ret, pc, compile_locals, search_locals>>

Commands == {"lint", "lint-clear"}
Events == {"lsp:diagnostics", "treesitter:parsed", "treesitter:lint", "input:key"}

lint_init ==
    /\ ~loaded
    /\ loaded' = TRUE
    /\ g_api' = TRUE
    /\ pattern_rules' = compile_pattern_rules(pattern_rules)
    /\ registered' = registered \cup Commands \cup Events
    /\ searched' = {}
    /\ UNCHANGED <<g_buffer_diags, g_lint_source_file, api, buffers, curbp, message>>
    /\ UNCHANGED <<conc_vars, engine_vars, search_offset>>

lint_cleanup ==
    /\ loaded
    /\ loaded' = FALSE
    /\ registered' = IF g_api
                     THEN (registered \ (IF api.unregister_command THEN Commands ELSE {}))
                              \ (IF api.off THEN Events ELSE {})
                     ELSE registered
    /\ pattern_rules' = free_pattern_rules(pattern_rules)
    /\ g_buffer_diags' = <<>>
    /\ g_lint_source_file' = <<>>
    /\ searched' = {}
    /\ UNCHANGED <<g_api, api, buffers, curbp, message>>
    /\ UNCHANGED <<conc_vars, engine_vars, search_offset>>

\* g_api->buffer_create(name): the buffer of that name, made when missing
buffer_create(bufs, name) ==
    LET found == {b \in 1..Len(bufs) : bufs[b].name = name} IN
    IF found # {} THEN [bufs |-> bufs, bp |-> Least(found)]
    ELSE [bufs |-> Append(bufs, [name |-> name, filename |-> NullPtr, contents |-> <<>>]),
          bp   |-> Len(bufs) + 1]

\* the text cmd_lint writes: the header line, then one line per diagnostic,
\* each line by the values printed into it
LintText(filename, ds) ==
    <<[file |-> filename, count |-> Len(ds)]>>
    \o [i \in 1..Len(ds) |-> [line |-> ds[i].line, col |-> ds[i].col,
                               severity |-> ds[i].severity, message |-> ds[i].message]]

\* the lint command, issued in a buffer other than *lint*
cmd_lint ==
    /\ "lint" \in registered
    /\ buffers[curbp].name # LINT_BUFFER_NAME
    /\ IF ~g_api
       THEN UNCHANGED <<lint_vars>>
       ELSE LET bp       == curbp
                filename == IF buffers[bp].filename.null THEN buffers[bp].name
                            ELSE buffers[bp].filename.at
                cleared  == clear_buffer_diags(g_buffer_diags, bp)
                run      == run_pattern_rules(cleared, pattern_rules, buffers, bp, g_api)
            IN \E sorted \in sort_diagnostics(run.list, bp) :
                 LET bd    == get_buffer_diags(sorted, bp)
                     count == IF bd.idx = 0 THEN 0 ELSE Len(bd.list[bd.idx].diags)
                 IN /\ g_lint_source_file' = filename
                    /\ g_buffer_diags' = bd.list
                    /\ searched' = run.calls
                    /\ IF count = 0
                       THEN /\ message' = <<"lint: No issues found">>
                            /\ UNCHANGED <<buffers, curbp>>
                       ELSE \E created \in BOOLEAN :
                              IF ~created
                              THEN /\ message' = <<"lint: Failed to create buffer">>
                                   /\ UNCHANGED <<buffers, curbp>>
                              ELSE LET lb == buffer_create(buffers, LINT_BUFFER_NAME) IN
                                   /\ buffers' = [lb.bufs EXCEPT ![lb.bp].contents =
                                                     LintText(filename, bd.list[bd.idx].diags)]
                                   /\ curbp' = lb.bp
                                   /\ message' = <<"lint: %d issue%s - Enter to jump", count>>
                    /\ UNCHANGED <<g_api, pattern_rules, api, loaded, registered>>
    /\ UNCHANGED <<conc_vars, engine_vars, search_offset>>

cmd_lint_clear ==
    /\ "lint-clear" \in registered
    /\ IF ~g_api
       THEN UNCHANGED <<g_buffer_diags, message>>
       ELSE /\ g_buffer_diags' = clear_buffer_diags(g_buffer_diags, curbp)
            /\ message' = <<"lint: Diagnostics cleared">>
    /\ searched' = {}
    /\ UNCHANGED <<g_api, pattern_rules, g_lint_source_file, api, loaded, buffers,
                   curbp, registered>>
    /\ UNCHANGED <<conc_vars, engine_vars, search_offset>>

\* event->data of "treesitter:lint": [buffer, diags]; buffer 0 is NULL
on_treesitter_lint(ev) ==
    /\ "treesitter:lint" \in registered
    /\ IF ~g_api \/ ev.buffer = 0
       THEN UNCHANGED g_buffer_diags
       ELSE LET bp    == ev.buffer
                conv  == [i \in 1..Len(ev.diags) |->
                            [line |-> ev.diags[i].line, col |-> ev.diags[i].col,
                             end_col |-> ev.diags[i].end_col,
                             severity |-> EventSeverity(ev.diags[i].severity),
                             source |-> "treesitter",
                             message |-> <<"[", ev.diags[i].rule, "] ", ev.diags[i].message>>]]
                added == AddAll(clear_source_diags(g_buffer_diags, bp, "treesitter"),
                                bp, conv, 1)
            IN g_buffer_diags' \in sort_diagnostics(added, bp)
    /\ searched' = {}
    /\ UNCHANGED <<g_api, pattern_rules, g_lint_source_file, api, loaded, buffers,
                   curbp, registered, message>>
    /\ UNCHANGED <<conc_vars, engine_vars, search_offset>>

\* "file://"
FileScheme == <<102, 105, 108, 101, 58, 47, 47>>

\* event->data of "lsp:diagnostics": [uri, diags]
on_lsp_diagnostics(ev) ==
    /\ "lsp:diagnostics" \in registered
    /\ LET path     == IF Len(ev.uri) >= 7 /\ SubSeq(ev.uri, 1, 7) = FileScheme
                       THEN SubSeq(ev.uri, 8, Len(ev.uri)) ELSE ev.uri
           bp       == curbp
           buf_file == buffers[bp].filename
       IN IF ~g_api \/ buf_file.null \/ buf_file.at # path
          THEN UNCHANGED g_buffer_diags
          ELSE LET conv  == [i \in 1..Len(ev.diags) |->
                               [line |-> ev.diags[i].line, col |-> ev.diags[i].col,
                                end_col |-> ev.diags[i].end_col,
                                severity |-> EventSeverity(ev.diags[i].severity),
                                source |-> "lsp",
                                message |-> <<ev.diags[i].message>>]]
                   added == AddAll(clear_source_diags(g_buffer_diags, bp, "lsp"),
                                   bp, conv, 1)
               IN g_buffer_diags' \in sort_diagnostics(added, bp)
    /\ searched' = {}
    /\ UNCHANGED <<g_api, pattern_rules, g_lint_source_file, api, loaded, buffers,
                   curbp, registered, message>>
    /\ UNCHANGED <<conc_vars, engine_vars, search_offset>>

\* the user selects another buffer
SwitchBuffer(b) ==
    /\ b # curbp
    /\ curbp' = b
    /\ UNCHANGED <<g_api, pattern_rules, g_buffer_diags, g_lint_source_file, api,
                   loaded, buffers, registered, message, searched>>
    /\ UNCHANGED <<conc_vars, engine_vars, search_offset>>

(***************************************************************************)
(* An editor with two files, a rule table of two rules, and the events the *)
(* tree-sitter and LSP extensions emit                                     *)
(***************************************************************************)
\* "m.c" holding  ab / aab ,  "n.t" holding  b /
FileMC == <<109, DOT, 99>>
FileNT == <<110, DOT, 116>>

SourceBuffers ==
    <<[name |-> FileMC, filename |-> Ptr(FileMC), contents |-> <<97, 98, NL, 97, 97, 98>>],
      [name |-> FileNT, filename |-> Ptr(FileNT), contents |-> <<98, NL>>]>>

Rule(name, pat, sev, types) ==
    [name |-> name, pattern |-> pat, severity |-> sev, message |-> "found",
     filetypes |-> types, compiled |-> EmptyProg, valid |-> FALSE]

\* ab in every file;  b*a$ in c,h files;  the rejected a**
RuleAB  == Rule("lit-ab", <<97, 98>>, LINT_WARNING, NullPtr)
RuleC   == Rule("c-tail", <<98, STAR, 97, DOLLAR>>, LINT_ERROR, Ptr(<<99, COMMA, 104>>))
RuleBad == Rule("bad-star", <<97, STAR, STAR>>, LINT_HINT, NullPtr)

RuleTables == {<<RuleBad, RuleAB>>, <<RuleAB, RuleC>>}

TsDiag == [line |-> 1, col |-> 0, end_col |-> 2, severity |-> LINT_WARNING,
           rule |-> "unused", message |-> "ts"]
LspDiag == [uri |-> FileScheme \o FileMC, line |-> 2, col |-> 1, end_col |-> -1,
            severity |-> 9, message |-> "lsp"]

TsEvents == {[buffer |-> b, diags |-> ds] : b \in 1..Len(SourceBuffers),
                                            ds \in {<<>>, <<TsDiag>>}}
LspEvents == {[uri |-> u, diags |-> ds] : u \in {FileScheme \o FileMC, FileNT},
                                          ds \in {<<>>, <<LspDiag>>}}

NextLint ==
    \/ lint_init
    \/ lint_cleanup
    \/ cmd_lint
    \/ cmd_lint_clear
    \/ \E ev \in TsEvents : on_treesitter_lint(ev)
    \/ \E ev \in LspEvents : on_lsp_diagnostics(ev)
    \/ \E b \in 1..Len(buffers) : SwitchBuffer(b)

\* the extension is not loaded yet: the static table holds the patterns,
\* zeroed programs and valid = false
InitLint ==
    /\ pattern = <<>>
    /\ case_sensitive = TRUE
    /\ str = <<>>
    /\ prog = EmptyProg
    /\ ret = FALSE
    /\ pc = "lint"
    /\ p = 0
    /\ start = -1
    /\ last = -1
    /\ start_anchor = FALSE
    /\ start_pos = 0
    /\ pos = 0
    /\ cur = <<>>
    /\ result = NoMatch
    /\ NoCalls
    /\ g_api = FALSE
    /\ pattern_rules \in RuleTables
    /\ g_buffer_diags = <<>>
    /\ g_lint_source_file = <<>>
    /\ api \in {[unregister_command |-> u, off |-> u] : u \in BOOLEAN}
    /\ loaded = FALSE
    /\ buffers = SourceBuffers
    /\ curbp = 1
    /\ registered = {}
    /\ message = <<>>
    /\ searched = {}
    /\ search_offset = 0

SpecLint == InitLint /\ [][NextLint]_vars

(***************************************************************************)
(* C14: a compile failure of one rule is recoverable and isolated:         *)
(* compile_pattern_rules marks that rule invalid and still compiles every  *)
(* other rule of the table, and run_pattern_rules never calls nfa_search   *)
(* on a rule whose valid flag is false, also after lint_cleanup has reset  *)
(* the flags.                                                              *)
(***************************************************************************)
C14_CompileFailureIsIsolated ==
    /\ loaded =>
         \A i \in 1..Len(pattern_rules) :
             LET c == nfa_compile(EmptyProg, pattern_rules[i].pattern, TRUE) IN
             /\ pattern_rules[i].valid = c.ok
             /\ c.ok => pattern_rules[i].compiled = c.prog
    /\ ~loaded => \A i \in 1..Len(pattern_rules) : ~pattern_rules[i].valid
    /\ \A e \in searched : e.valid

\* the first rule of the table was rejected, the second one compiled, and the
\* lint command searched the second rule only and recorded its matches
C14_Witness ==
    /\ loaded
    /\ ~pattern_rules[1].valid
    /\ pattern_rules[1].compiled.state_count > 0
    /\ pattern_rules[2].valid
    /\ searched = {[rule |-> 2, valid |-> TRUE]}
    /\ message = <<"lint: %d issue%s - Enter to jump", 2>>

(***************************************************************************)
(* C16: the linter aggregates diagnostics from three sources: after the    *)
(* lint command runs on a buffer, the buffer's diagnostic list contains    *)
(* the new pattern diagnostics together with the tree-sitter and LSP       *)
(* diagnostics previously received for that buffer.                        *)
(***************************************************************************)
DiagsOf(gbd, bp) ==
    UNION {{gbd[i].diags[k] : k \in 1..Len(gbd[i].diags)} :
              i \in {j \in 1..Len(gbd) : gbd[j].bp = bp}}

Received(gbd, bp) == {d \in DiagsOf(gbd, bp) : d.source \in {"treesitter", "lsp"}}

C16_LintAggregatesThreeSources ==
    [][cmd_lint => Received(g_buffer_diags, curbp) \subseteq DiagsOf(g_buffer_diags', curbp)]_vars

(***************************************************************************)
(* C21: for every pattern with a leading '^' that compiles successfully,   *)
(* "^" and "^$" with their empty body included, the program's start_state  *)
(* is the Begin-of-line state, so every path from the entry to the Match   *)
(* state passes through the Begin-of-line check.                           *)
(***************************************************************************)
Compiled == pc \in {"compiled", "outer", "inner", "eol", "done"}

C21_CaretEntryIsBolState ==
    (Compiled /\ StartAnchored(pattern)) =>
        prog.states[prog.start_state + 1].type = "ST_BOL"

(***************************************************************************)
(* C23: a failed compile never leaves partial state: when nfa_compile      *)
(* returns false, the Program it was given is either empty or still what   *)
(* it was before the call; it does not hold a fragment of the rejected     *)
(* pattern next to the stale start_state of an earlier compile.            *)
(***************************************************************************)
\* the Program objects a call of InitRe is given
GivenPrograms ==
    {nfa_compile(EmptyProg, prev, cs).prog : prev \in PrevPatterns, cs \in BOOLEAN}

C23_FailedCompileLeavesNoPartialState ==
    pc = "failed" => (prog.state_count = 0 \/ prog \in GivenPrograms)

(***************************************************************************)
(* Classes of one range, with endpoints up to the largest byte             *)
(***************************************************************************)
MaxRangeLine == 1

\* '\001', 'A', 'a', '\376', '\377'
RangeEnds == {1, 65, 97, 254, 255}

RangeClass(a, b) == <<LBRACK, a, MINUS, b, RBRACK>>

RangeInputs ==
    {Input(RangeClass(a, b), cs, s) : a \in RangeEnds, b \in RangeEnds, cs \in BOOLEAN,
                                      s \in SeqsUpTo(RangeEnds \cup {98}, MaxRangeLine)}

InitRange == InitWith(RangeInputs)

SpecRange == InitRange /\ [][Next]_vars

(***************************************************************************)
(* C24: compiling a class range a-b terminates and sets exactly the bytes  *)
(* between the two endpoints inclusive, in either endpoint order, for all  *)
(* endpoint bytes including an upper endpoint of 255: the 8-bit loop       *)
(* counter does not wrap around.                                           *)
(***************************************************************************)
C24_ClassRangeTerminates ==
    /\ pc # "hang"
    /\ Compiled =>
           prog.states[1].cls = Between(Fold(pattern[2], case_sensitive),
                                        Fold(pattern[4], case_sensitive))

(***************************************************************************)
(* Case-insensitive programs: units that hold upper-case bytes as a        *)
(* literal, an escaped literal, a class member and a range endpoint        *)
(***************************************************************************)
MaxCaseUnits == 1
MaxCaseLine == 2

\* A  b  \B  [Ab]  [a-B]  [Z-a]  A*b
CaseUnits == {<<65>>, <<98>>, <<BACKSLASH, 66>>, <<LBRACK, 65, 98, RBRACK>>,
              <<LBRACK, 97, MINUS, 66, RBRACK>>, <<LBRACK, 90, MINUS, 97, RBRACK>>,
              <<65, STAR, 98>>}

RECURSIVE CaseSeqs(_)
CaseSeqs(n) ==
    IF n = 0 THEN {<<>>}
    ELSE CaseSeqs(n - 1) \cup {w \o u : w \in CaseSeqs(n - 1), u \in CaseUnits}

CaseInputs ==
    {Input(pat, FALSE, s) : pat \in CaseSeqs(MaxCaseUnits),
                            s \in SeqsUpTo({65, 97, 66, 122}, MaxCaseLine)}

InitCase == InitWith(CaseInputs)

SpecCase == InitCase /\ [][Next]_vars

(***************************************************************************)
(* C22: case normalization is identical at compile time and match time:    *)
(* for every pattern p and line L, nfa_search with compile(p, false) on L  *)
(* returns the same Match as nfa_search with compile(lower(p), true) on    *)
(* lower(L), for literals, escaped literals, class members and class       *)
(* range endpoints alike.                                                  *)
(***************************************************************************)
Lower(s) == [i \in 1..Len(s) |-> tolower(s[i])]

LoweredCompile == nfa_compile(EmptyProg, Lower(pattern), TRUE)

C22_CaseNormalizationAgrees ==
    /\ (pc \in {"compiled", "failed"} /\ ~case_sensitive) => ret = LoweredCompile.ok
    /\ (Returned /\ ~case_sensitive) => result = nfa_search(LoweredCompile.prog, Lower(str))

\* "[a-B]" on "zB": the range is a..b once both endpoints are folded, and
\* the 'B' of the line is folded as well
C22_Witness ==
    /\ Returned
    /\ ~case_sensitive
    /\ pattern = <<LBRACK, 97, MINUS, 66, RBRACK>>
    /\ str = <<122, 66>>
    /\ result = [start |-> 1, end |-> 2, found |-> TRUE]

(***************************************************************************)
(* Patterns with one escaped unit \c, alone or next to an anchor, a        *)
(* literal or a '*'                                                        *)
(***************************************************************************)
MaxEscLine == 1

\* the bytes with a meaning in a pattern, and 'a', 'A'
EscBytes == {STAR, DOT, LBRACK, RBRACK, DOLLAR, CARET, BACKSLASH, 97, 65}

EscPatterns ==
    {pre \o <<BACKSLASH, c>> \o post : c \in EscBytes,
                                       pre \in {<<>>, <<97>>, <<CARET>>},
                                       post \in {<<>>, <<STAR>>, <<98>>, <<DOLLAR>>}}

EscInputs ==
    {Input(pat, cs, s) : pat \in EscPatterns, cs \in BOOLEAN,
                         s \in SeqsUpTo(EscBytes, MaxEscLine)}

InitEsc == InitWith(EscInputs)

SpecEsc == InitEsc /\ [][Next]_vars

(***************************************************************************)
(* C25: an escaped unit \c compiles to one Literal state for byte c        *)
(* (normalised like every literal) whatever special meaning c has, and it  *)
(* does not take part in '*' detection: a '*' directly after an escaped    *)
(* literal is never compiled as closure of that literal, the pattern       *)
(* fails to compile as a stray '*'.                                        *)
(***************************************************************************)
AtEscape == pc = "parse" /\ At(pattern, p) = BACKSLASH /\ At(pattern, p + 1) # NUL

\* the parsing loop stands at a '*' and the unit before it was an escape
AtStarAfterEscape ==
    pc = "parse" /\ p >= 2 /\ At(pattern, p - 2) = BACKSLASH /\ At(pattern, p) = STAR

C25_EscapedUnitIsPlainLiteral ==
    [][/\ AtEscape =>
             /\ pc' = "parse"
             /\ p' = p + 2
             /\ last' = prog.state_count
             /\ prog'.state_count = prog.state_count + 1
             /\ prog'.states[prog'.state_count] =
                    [type |-> "ST_CHAR",
                     c |-> nfa_normalize(At(pattern, p + 1), case_sensitive),
                     cls |-> {}, out |-> -1, out1 |-> -1]
       /\ AtStarAfterEscape => (pc' = "failed" /\ ret' = FALSE /\ prog' = prog)
      ]_vars

\* "\.*" is rejected at the '*', after the Literal '.' was added
C25_Witness ==
    /\ pc = "failed"
    /\ pattern = <<BACKSLASH, DOT, STAR>>
    /\ p = 2
    /\ prog.state_count = 1
    /\ prog.states[1].type = "ST_CHAR"
    /\ prog.states[1].c = DOT

(***************************************************************************)
(* The built-in rule table pattern_rules[] (lint.c:500-634), every entry   *)
(* with the bytes of its C string literals                                 *)
(***************************************************************************)
BuiltinRule(name, pat, sev, msg, types) ==
    [name |-> name, pattern |-> pat, severity |-> sev, message |-> msg,
     filetypes |-> types, compiled |-> EmptyProg, valid |-> FALSE]

\* "c,h,cpp,hpp"  "js,ts,jsx,tsx"  "py"  "cpp,hpp"
TypesC == <<99, COMMA, 104, COMMA, 99, 112, 112, COMMA, 104, 112, 112>>
TypesJS == <<106, 115, COMMA, 116, 115, COMMA, 106, 115, 120, COMMA, 116, 115, 120>>
TypesPy == <<112, 121>>
TypesCpp == <<99, 112, 112, COMMA, 104, 112, 112>>

BuiltinRules ==
    <<
      \* lint.c:504  "[ \t][ \t]*$"
      BuiltinRule("trailing-whitespace",
          <<91, 32, 9, 93, 91, 32, 9, 93, 42, 36>>,
          LINT_WARNING, "Trailing whitespace", NullPtr),
      \* lint.c:506  "^................................................................................"
      BuiltinRule("line-too-long-80",
          <<94, 46, 46, 46, 46, 46, 46, 46, 46, 46, 46, 46, 46, 46, 46, 46, 46, 46,
            46, 46, 46, 46, 46, 46, 46, 46, 46, 46, 46, 46, 46, 46, 46, 46, 46, 46,
            46, 46, 46, 46, 46, 46, 46, 46, 46, 46, 46, 46, 46, 46, 46, 46, 46, 46,
            46, 46, 46, 46, 46, 46, 46, 46, 46, 46, 46, 46, 46, 46, 46, 46, 46, 46,
            46, 46, 46, 46, 46, 46, 46, 46, 46>>,
          LINT_INFO, "Line exceeds 80 characters", NullPtr),
      \* lint.c:508  " \t"
      BuiltinRule("tab-after-space",
          <<32, 9>>,
          LINT_WARNING, "Tab after space (mixed indentation)", NullPtr),
      \* lint.c:510  "\t "
      BuiltinRule("space-after-tab",
          <<9, 32>>,
          LINT_WARNING, "Space after tab (mixed indentation)", NullPtr),
      \* lint.c:512  "   "
      BuiltinRule("multiple-spaces",
          <<32, 32, 32>>,
          LINT_HINT, "Three or more consecutive spaces", NullPtr),
      \* lint.c:514  ",$"
      BuiltinRule("trailing-comma",
          <<44, 36>>,
          LINT_HINT, "Trailing comma at end of line", NullPtr),
      \* lint.c:516  " ("  for "c,h,cpp,hpp"
      BuiltinRule("space-before-paren",
          <<32, 40>>,
          LINT_HINT, "Space before opening parenthesis", Ptr(TypesC)),
      \* lint.c:518  ",[^ \t\n]"
      BuiltinRule("no-space-after-comma",
          <<44, 91, 94, 32, 9, 10, 93>>,
          LINT_HINT, "Missing space after comma", NullPtr),
      \* lint.c:520  "^$"
      BuiltinRule("double-blank",
          <<94, 36>>,
          LINT_HINT, "Blank line (check for multiple)", NullPtr),
      \* lint.c:526  "TODO"
      BuiltinRule("todo-marker",
          <<84, 79, 68, 79>>,
          LINT_INFO, "TODO marker found", NullPtr),
      \* lint.c:528  "FIXME"
      BuiltinRule("fixme-marker",
          <<70, 73, 88, 77, 69>>,
          LINT_INFO, "FIXME marker found", NullPtr),
      \* lint.c:530  "XXX"
      BuiltinRule("xxx-marker",
          <<88, 88, 88>>,
          LINT_WARNING, "XXX marker found (needs attention)", NullPtr),
      \* lint.c:532  "HACK"
      BuiltinRule("hack-marker",
          <<72, 65, 67, 75>>,
          LINT_WARNING, "HACK marker found", NullPtr),
      \* lint.c:534  "BUG"
      BuiltinRule("bug-marker",
          <<66, 85, 71>>,
          LINT_WARNING, "BUG marker found", NullPtr),
      \* lint.c:536  "WARNING"
      BuiltinRule("warn-marker",
          <<87, 65, 82, 78, 73, 78, 71>>,
          LINT_INFO, "WARNING marker in comment", NullPtr),
      \* lint.c:538  "DEPRECATED"
      BuiltinRule("deprecated-marker",
          <<68, 69, 80, 82, 69, 67, 65, 84, 69, 68>>,
          LINT_WARNING, "DEPRECATED marker found", NullPtr),
      \* lint.c:540  "noqa"
      BuiltinRule("noqa-marker",
          <<110, 111, 113, 97>>,
          LINT_HINT, "Lint suppression marker", NullPtr),
      \* lint.c:546  "gets[ \t]*("  for "c,h,cpp,hpp"
      BuiltinRule("dangerous-gets",
          <<103, 101, 116, 115, 91, 32, 9, 93, 42, 40>>,
          LINT_ERROR, "gets() is unsafe - use fgets() instead", Ptr(TypesC)),
      \* lint.c:548  "strcpy[ \t]*("  for "c,h,cpp,hpp"
      BuiltinRule("dangerous-strcpy",
          <<115, 116, 114, 99, 112, 121, 91, 32, 9, 93, 42, 40>>,
          LINT_WARNING, "strcpy() can overflow - use strncpy() or strlcpy()", Ptr(TypesC)),
      \* lint.c:550  "strcat[ \t]*("  for "c,h,cpp,hpp"
      BuiltinRule("dangerous-strcat",
          <<115, 116, 114, 99, 97, 116, 91, 32, 9, 93, 42, 40>>,
          LINT_WARNING, "strcat() can overflow - use strncat() or strlcat()", Ptr(TypesC)),
      \* lint.c:552  "sprintf[ \t]*("  for "c,h,cpp,hpp"
      BuiltinRule("dangerous-sprintf",
          <<115, 112, 114, 105, 110, 116, 102, 91, 32, 9, 93, 42, 40>>,
          LINT_WARNING, "sprintf() can overflow - use snprintf()", Ptr(TypesC)),
      \* lint.c:554  "vsprintf[ \t]*("  for "c,h,cpp,hpp"
      BuiltinRule("dangerous-vsprintf",
          <<118, 115, 112, 114, 105, 110, 116, 102, 91, 32, 9, 93, 42, 40>>,
          LINT_WARNING, "vsprintf() can overflow - use vsnprintf()", Ptr(TypesC)),
      \* lint.c:556  "scanf[ \t]*("  for "c,h,cpp,hpp"
      BuiltinRule("dangerous-scanf",
          <<115, 99, 97, 110, 102, 91, 32, 9, 93, 42, 40>>,
          LINT_WARNING, "scanf() without width limit can overflow", Ptr(TypesC)),
      \* lint.c:558  "sscanf[ \t]*("  for "c,h,cpp,hpp"
      BuiltinRule("dangerous-sscanf",
          <<115, 115, 99, 97, 110, 102, 91, 32, 9, 93, 42, 40>>,
          LINT_HINT, "sscanf() - ensure format specifiers have width limits", Ptr(TypesC)),
      \* lint.c:560  "system[ \t]*("  for "c,h,cpp,hpp"
      BuiltinRule("dangerous-system",
          <<115, 121, 115, 116, 101, 109, 91, 32, 9, 93, 42, 40>>,
          LINT_WARNING, "system() can be exploited - validate input carefully", Ptr(TypesC)),
      \* lint.c:562  "popen[ \t]*("  for "c,h,cpp,hpp"
      BuiltinRule("dangerous-popen",
          <<112, 111, 112, 101, 110, 91, 32, 9, 93, 42, 40>>,
          LINT_WARNING, "popen() can be exploited - validate input carefully", Ptr(TypesC)),
      \* lint.c:564  "mktemp[ \t]*("  for "c,h,cpp,hpp"
      BuiltinRule("dangerous-mktemp",
          <<109, 107, 116, 101, 109, 112, 91, 32, 9, 93, 42, 40>>,
          LINT_WARNING, "mktemp() is insecure - use mkstemp()", Ptr(TypesC)),
      \* lint.c:566  "tmpnam[ \t]*("  for "c,h,cpp,hpp"
      BuiltinRule("dangerous-tmpnam",
          <<116, 109, 112, 110, 97, 109, 91, 32, 9, 93, 42, 40>>,
          LINT_WARNING, "tmpnam() is insecure - use mkstemp()", Ptr(TypesC)),
      \* lint.c:572  "password[ \t]*=[ \t]*\""
      BuiltinRule("hardcoded-password",
          <<112, 97, 115, 115, 119, 111, 114, 100, 91, 32, 9, 93, 42, 61, 91, 32,
            9, 93, 42, 34>>,
          LINT_WARNING, "Possible hardcoded password", NullPtr),
      \* lint.c:574  "passwd[ \t]*=[ \t]*\""
      BuiltinRule("hardcoded-passwd",
          <<112, 97, 115, 115, 119, 100, 91, 32, 9, 93, 42, 61, 91, 32, 9, 93, 42,
            34>>,
          LINT_WARNING, "Possible hardcoded password", NullPtr),
      \* lint.c:576  "secret[ \t]*=[ \t]*\""
      BuiltinRule("hardcoded-secret",
          <<115, 101, 99, 114, 101, 116, 91, 32, 9, 93, 42, 61, 91, 32, 9, 93, 42,
            34>>,
          LINT_WARNING, "Possible hardcoded secret", NullPtr),
      \* lint.c:578  "api_key[ \t]*=[ \t]*\""
      BuiltinRule("hardcoded-apikey",
          <<97, 112, 105, 95, 107, 101, 121, 91, 32, 9, 93, 42, 61, 91, 32, 9, 93,
            42, 34>>,
          LINT_WARNING, "Possible hardcoded API key", NullPtr),
      \* lint.c:580  "token[ \t]*=[ \t]*\""
      BuiltinRule("hardcoded-token",
          <<116, 111, 107, 101, 110, 91, 32, 9, 93, 42, 61, 91, 32, 9, 93, 42, 34>>,
          LINT_WARNING, "Possible hardcoded token", NullPtr),
      \* lint.c:582  "-----BEGIN"
      BuiltinRule("private-key-begin",
          <<45, 45, 45, 45, 45, 66, 69, 71, 73, 78>>,
          LINT_ERROR, "Private key material detected", NullPtr),
      \* lint.c:584  "AKIA"
      BuiltinRule("aws-key-pattern",
          <<65, 75, 73, 65>>,
          LINT_WARNING, "Possible AWS access key (starts with AKIA)", NullPtr),
      \* lint.c:590  ";;"
      BuiltinRule("double-semicolon",
          <<59, 59>>,
          LINT_WARNING, "Double semicolon - possible typo", NullPtr),
      \* lint.c:592  ");[ \t]*$"  for "c,h,cpp,hpp"
      BuiltinRule("empty-if-body",
          <<41, 59, 91, 32, 9, 93, 42, 36>>,
          LINT_HINT, "Statement ends with ); - check for empty if body", Ptr(TypesC)),
      \* lint.c:594  "= *[a-z_][a-z_0-9]* *;"
      BuiltinRule("self-assign-pattern",
          <<61, 32, 42, 91, 97, 45, 122, 95, 93, 91, 97, 45, 122, 95, 48, 45, 57,
            93, 42, 32, 42, 59>>,
          LINT_HINT, "Simple assignment - verify not self-assignment", NullPtr),
      \* lint.c:596  "== NULL"  for "c,h,cpp,hpp"
      BuiltinRule("null-literal-cmp",
          <<61, 61, 32, 78, 85, 76, 76>>,
          LINT_HINT, "Consider using !ptr instead of ptr == NULL", Ptr(TypesC)),
      \* lint.c:598  "!= NULL"  for "c,h,cpp,hpp"
      BuiltinRule("null-literal-cmp2",
          <<33, 61, 32, 78, 85, 76, 76>>,
          LINT_HINT, "Consider using ptr instead of ptr != NULL", Ptr(TypesC)),
      \* lint.c:600  "/ 0"
      BuiltinRule("zero-division-risk",
          <<47, 32, 48>>,
          LINT_ERROR, "Division by zero", NullPtr),
      \* lint.c:606  "console.log"  for "js,ts,jsx,tsx"
      BuiltinRule("console-log",
          <<99, 111, 110, 115, 111, 108, 101, 46, 108, 111, 103>>,
          LINT_INFO, "console.log() left in code", Ptr(TypesJS)),
      \* lint.c:608  "console.debug"  for "js,ts,jsx,tsx"
      BuiltinRule("console-debug",
          <<99, 111, 110, 115, 111, 108, 101, 46, 100, 101, 98, 117, 103>>,
          LINT_INFO, "console.debug() left in code", Ptr(TypesJS)),
      \* lint.c:610  "debugger"  for "js,ts,jsx,tsx"
      BuiltinRule("debugger-stmt",
          <<100, 101, 98, 117, 103, 103, 101, 114>>,
          LINT_WARNING, "debugger statement left in code", Ptr(TypesJS)),
      \* lint.c:612  "breakpoint()"  for "py"
      BuiltinRule("python-breakpoint",
          <<98, 114, 101, 97, 107, 112, 111, 105, 110, 116, 40, 41>>,
          LINT_WARNING, "breakpoint() left in code", Ptr(TypesPy)),
      \* lint.c:614  "pdb.set_trace"  for "py"
      BuiltinRule("python-pdb",
          <<112, 100, 98, 46, 115, 101, 116, 95, 116, 114, 97, 99, 101>>,
          LINT_WARNING, "pdb.set_trace() left in code", Ptr(TypesPy)),
      \* lint.c:616  "DEBUG"  for "c,h,cpp,hpp"
      BuiltinRule("debug-printf",
          <<68, 69, 66, 85, 71>>,
          LINT_HINT, "DEBUG marker - verify intended for production", Ptr(TypesC)),
      \* lint.c:622  "= [0-9][0-9][0-9][0-9]"
      BuiltinRule("magic-number-large",
          <<61, 32, 91, 48, 45, 57, 93, 91, 48, 45, 57, 93, 91, 48, 45, 57, 93, 91,
            48, 45, 57, 93>>,
          LINT_HINT, "Magic number (4+ digits) - consider named constant", NullPtr),
      \* lint.c:624  "goto "  for "c,h,cpp,hpp"
      BuiltinRule("goto-statement",
          <<103, 111, 116, 111, 32>>,
          LINT_INFO, "goto statement found", Ptr(TypesC)),
      \* lint.c:626  "while[ \t]*(1)"  for "c,h,cpp,hpp"
      BuiltinRule("infinite-loop",
          <<119, 104, 105, 108, 101, 91, 32, 9, 93, 42, 40, 49, 41>>,
          LINT_INFO, "Infinite loop - ensure exit condition exists", Ptr(TypesC)),
      \* lint.c:628  "([a-z_][a-z_0-9]*[ ]*\\**)[ ]*[a-z_]"  for "cpp,hpp"
      BuiltinRule("c-cast",
          <<40, 91, 97, 45, 122, 95, 93, 91, 97, 45, 122, 95, 48, 45, 57, 93, 42,
            91, 32, 93, 42, 92, 42, 42, 41, 91, 32, 93, 42, 91, 97, 45, 122, 95,
            93>>,
          LINT_HINT, "C-style cast - consider static_cast in C++", Ptr(TypesCpp))
    >>

(***************************************************************************)
(* An editor with one C file whose text matches built-in rules, and the    *)
(* extension with its built-in table                                       *)
(***************************************************************************)
\* "m.c" holding  x;; / gets(
BuiltinBuffers ==
    <<[name |-> FileMC, filename |-> Ptr(FileMC),
       contents |-> <<120, 59, 59, NL, 103, 101, 116, 115, LPAREN>>]>>

InitBuiltin ==
    /\ pattern = <<>>
    /\ case_sensitive = TRUE
    /\ str = <<>>
    /\ prog = EmptyProg
    /\ ret = FALSE
    /\ pc = "lint"
    /\ p = 0
    /\ start = -1
    /\ last = -1
    /\ start_anchor = FALSE
    /\ start_pos = 0
    /\ pos = 0
    /\ cur = <<>>
    /\ result = NoMatch
    /\ NoCalls
    /\ g_api = FALSE
    /\ pattern_rules = BuiltinRules
    /\ g_buffer_diags = <<>>
    /\ g_lint_source_file = <<>>
    /\ api \in {[unregister_command |-> u, off |-> u] : u \in BOOLEAN}
    /\ loaded = FALSE
    /\ buffers = BuiltinBuffers
    /\ curbp = 1
    /\ registered = {}
    /\ message = <<>>
    /\ searched = {}
    /\ search_offset = 0

SpecBuiltin == InitBuiltin /\ [][NextLint]_vars

(***************************************************************************)
(* C27: after lint_init every rule of the built-in pattern_rules table has *)
(* compiled successfully (valid = true): each default pattern lies inside  *)
(* the grammar nfa_compile accepts.                                        *)
(***************************************************************************)
C27_BuiltinRulesCompile ==
    loaded => \A i \in 1..Len(pattern_rules) : pattern_rules[i].valid

(***************************************************************************)
(* run_pattern_rules step by step, for a table of one rule and a buffer    *)
(* of one line: the rule is compiled (compile_pattern_rules), then the     *)
(* all-matches loop calls nfa_search on the rest of the line from          *)
(* search_offset until no match is found or the line is used up            *)
(***************************************************************************)
\* the line of the buffer
TheLine == buffers[1].contents

\* run_pattern_rules up to the all-matches loop of the rule on the line
RunEnter ==
    /\ pc = "compiled"
    /\ g_buffer_diags' = clear_source_diags(g_buffer_diags, curbp, "pattern")
    /\ search_offset' = 0
    /\ pc' = "matches"
    /\ UNCHANGED <<g_api, pattern_rules, g_lint_source_file, api, loaded, buffers,
                   curbp, registered, message, searched>>
    /\ UNCHANGED <<conc_vars, inputs, prog, ret, compile_locals, search_locals>>

\* while (search_offset < line_len): the loop test and, when it holds, the
\* call nfa_search(&r->compiled, line_start + search_offset,
\* line_len - search_offset)
MatchesHead ==
    /\ pc = "matches"
    /\ IF search_offset < Len(TheLine)
       THEN /\ str' = SubSeq(TheLine, search_offset + 1, Len(TheLine))
            /\ result' = NoMatch
            /\ start_pos' = 0
            /\ pos' = 0
            /\ cur' = <<>>
            /\ pc' = "outer"
       ELSE /\ pc' = "finished"
            /\ UNCHANGED <<str, search_locals>>
    /\ UNCHANGED <<conc_vars, lint_vars, pattern, case_sensitive, prog, ret, compile_locals>>

\* the body of the loop after nfa_search has returned
MatchesBody ==
    /\ pc = "done"
    /\ IF ~result.found
       THEN /\ pc' = "finished"
            /\ UNCHANGED <<g_buffer_diags, search_offset>>
       ELSE /\ g_buffer_diags' = add_diagnostic(g_buffer_diags, curbp,
                                     PatternDiag(pattern_rules[1], 1, search_offset, result))
            /\ search_offset' = search_offset + Advance(result)
            /\ pc' = "matches"
    /\ UNCHANGED <<g_api, pattern_rules, g_lint_source_file, api, loaded, buffers,
                   curbp, registered, message, searched>>
    /\ UNCHANGED <<conc_vars, inputs, prog, ret, compile_locals, search_locals>>

NextAll ==
    \/ CompileEnter
    \/ CompileUnit
    \/ CompileFinish
    \/ RunEnter
    \/ MatchesHead
    \/ SearchOuter
    \/ SearchInner
    \/ SearchEol
    \/ MatchesBody

MaxAllUnits == 1
MaxAllLine == 2

\* a  .  a*
AllUnits == {<<97>>, <<DOT>>, <<97, STAR>>}

RECURSIVE AllSeqs(_)
AllSeqs(n) ==
    IF n = 0 THEN {<<>>}
    ELSE AllSeqs(n - 1) \cup {w \o u : w \in AllSeqs(n - 1), u \in AllUnits}

AllPatterns ==
    {pre \o w \o post : w \in AllSeqs(MaxAllUnits),
                        pre \in {<<>>, <<CARET>>}, post \in {<<>>, <<DOLLAR>>}}

\* the rule line-too-long-80 of the built-in table, and a line of 160 'x'
LineTooLong == BuiltinRules[2]
Line160 == [i \in 1..160 |-> 120]

AllInputs ==
    {[rule |-> Rule("rule", pat, LINT_WARNING, NullPtr), line |-> l] :
         pat \in AllPatterns, l \in SeqsUpTo({97, 98}, MaxAllLine)}
    \cup {[rule |-> LineTooLong, line |-> Line160]}

InitAll ==
    /\ \E i \in AllInputs :
         /\ pattern_rules = <<i.rule>>
         /\ pattern = i.rule.pattern
         /\ buffers = <<[name |-> FileMC, filename |-> Ptr(FileMC), contents |-> i.line]>>
    /\ case_sensitive = TRUE
    /\ str = <<>>
    /\ prog = EmptyProg
    /\ ret = FALSE
    /\ pc = "call"
    /\ p = 0
    /\ start = -1
    /\ last = -1
    /\ start_anchor = FALSE
    /\ start_pos = 0
    /\ pos = 0
    /\ cur = <<>>
    /\ result = NoMatch
    /\ NoCalls
    /\ g_api = TRUE
    /\ g_buffer_diags = <<>>
    /\ g_lint_source_file = <<>>
    /\ api = [unregister_command |-> TRUE, off |-> TRUE]
    /\ loaded = TRUE
    /\ curbp = 1
    /\ registered = Commands \cup Events
    /\ message = <<>>
    /\ searched = {}
    /\ search_offset = 0

\* every step of the handler is taken: the code runs to its end
SpecAll == InitAll /\ [][NextAll]_vars /\ WF_vars(NextAll)

Finished == pc \in {"finished", "failed"}

\* the diagnostics recorded for the line so far
LineDiags == IF g_buffer_diags = <<>> THEN <<>> ELSE g_buffer_diags[1].diags

\* the stepwise loop and run_pattern_rules record the same diagnostics
LoopAgrees ==
    pc = "finished" =>
        g_buffer_diags =
            run_pattern_rules(<<>>, <<[pattern_rules[1] EXCEPT !.compiled = prog,
                                                               !.valid = TRUE]>>,
                              buffers, curbp, TRUE).list

(***************************************************************************)
(* C26: in run_pattern_rules a rule whose pattern starts with '^' yields   *)
(* at most one diagnostic per line and only at col 0: the repeated search  *)
(* for further matches on the same line (restarting at search_offset > 0)  *)
(* never treats the restart offset as the beginning of the line.           *)
(***************************************************************************)
C26_CaretRuleReportsOncePerLine ==
    StartAnchored(pattern) =>
        /\ Len(LineDiags) <= 1
        /\ \A k \in 1..Len(LineDiags) : LineDiags[k].col = 0

(***************************************************************************)
(* C28: the all-matches loop of run_pattern_rules terminates for every     *)
(* rule and line: search_offset grows by at least 1 on every iteration     *)
(* (also after a zero-length match), and the diagnostics one rule produces *)
(* on one line have strictly increasing col and non-overlapping            *)
(* [col, end_col) spans lying inside the line.                             *)
(***************************************************************************)
SpansInLine ==
    /\ search_offset <= Len(TheLine)
    /\ \A k \in 1..Len(LineDiags) :
         /\ 0 <= LineDiags[k].col
         /\ LineDiags[k].col <= LineDiags[k].end_col
         /\ LineDiags[k].end_col <= Len(TheLine)
         /\ k > 1 => /\ LineDiags[k - 1].col < LineDiags[k].col
                     /\ LineDiags[k - 1].end_col <= LineDiags[k].col

C28_AllMatchesLoopTerminates ==
    /\ []SpansInLine
    /\ [][(pc = "done" /\ result.found) => search_offset' >= search_offset + 1]_vars
    /\ <>Finished

\* "a*" on "ba": a zero-length match at col 0, the restart one character
\* further, a zero-length match at col 1, and the loop has ended
C28_Witness ==
    /\ pc = "finished"
    /\ pattern = <<97, STAR>>
    /\ TheLine = <<98, 97>>
    /\ Len(LineDiags) = 2
    /\ LineDiags[1].col = 0 /\ LineDiags[1].end_col = 0
    /\ LineDiags[2].col = 1
    /\ search_offset = 2

(***************************************************************************)
(* C29: refreshing one diagnostic source replaces only that source:        *)
(* on_lsp_diagnostics, on_treesitter_lint and run_pattern_rules (the lint  *)
(* command) remove the buffer's previous diagnostics of their own source,  *)
(* keep every diagnostic of the other sources of that buffer and leave the *)
(* diagnostics of every other buffer unchanged; afterwards the buffer's    *)
(* list is ordered by (line, col) and its cursor is within                 *)
(* 0..max(count-1, 0).                                                     *)
(***************************************************************************)
EntryOf(gbd, bp) ==
    LET found == {i \in 1..Len(gbd) : gbd[i].bp = bp} IN
    IF found = {} THEN [diags |-> <<>>, cursor |-> 0]
    ELSE [diags |-> gbd[Least(found)].diags, cursor |-> gbd[Least(found)].cursor]

OtherSources(gbd, bp, source) == {d \in DiagsOf(gbd, bp) : d.source # source}

Ordered(ds) == \A i \in 1..(Len(ds) - 1) : diag_compare(ds[i], ds[i + 1]) <= 0

RefreshesOnly(source, bp) ==
    /\ OtherSources(g_buffer_diags', bp, source) = OtherSources(g_buffer_diags, bp, source)
    /\ \A b \in (1..Len(buffers)) \ {bp} :
           EntryOf(g_buffer_diags', b) = EntryOf(g_buffer_diags, b)
    /\ Ordered(EntryOf(g_buffer_diags', bp).diags)
    /\ LET e == EntryOf(g_buffer_diags', bp) IN
       e.cursor >= 0 /\ e.cursor <= (IF Len(e.diags) > 0 THEN Len(e.diags) - 1 ELSE 0)

\* the two event handlers refresh their own source only
EventRefreshesOnlyItsSource ==
    [][/\ \A ev \in TsEvents : on_treesitter_lint(ev) => RefreshesOnly("treesitter", ev.buffer)
       /\ \A ev \in LspEvents : on_lsp_diagnostics(ev) => RefreshesOnly("lsp", curbp)]_vars

C29_RefreshReplacesOnlyOwnSource ==
    [][/\ \A ev \in TsEvents : on_treesitter_lint(ev) => RefreshesOnly("treesitter", ev.buffer)
       /\ \A ev \in LspEvents : on_lsp_diagnostics(ev) => RefreshesOnly("lsp", curbp)
       /\ cmd_lint => RefreshesOnly("pattern", curbp)]_vars

\* run_pattern_rules by itself, applied to the diagnostics of any state, removes
\* the pattern diagnostics only; the lint command calls clear_buffer_diags first
RunPatternRulesKeepsOthers ==
    (g_api /\ buffers[curbp].name # LINT_BUFFER_NAME) =>
        LET after == run_pattern_rules(g_buffer_diags, pattern_rules, buffers, curbp, g_api).list IN
        /\ OtherSources(after, curbp, "pattern") = OtherSources(g_buffer_diags, curbp, "pattern")
        /\ \A b \in (1..Len(buffers)) \ {curbp} : EntryOf(after, b) = EntryOf(g_buffer_diags, b)

(***************************************************************************)
(* C30: after any sequence of lint, lint-clear and diagnostic events over  *)
(* any number of distinct buffers, the lint command on a buffer whose text *)
(* contains a match of an applicable valid rule records at least one       *)
(* diagnostic and does not report "No issues found"; the number of buffers *)
(* seen before does not change the result.                                 *)
(*                                                                         *)
(* An editor with MAX_BUFFERS + 1 files, each holding  ab ; the user works *)
(* through them in turn, moving to the next file once the diagnostics of   *)
(* the current one are cleared, and back from *lint* to the file linted;   *)
(* the lint command is run in the first and in the last file.              *)
(***************************************************************************)
NumFiles == MAX_BUFFERS + 1
LintedFiles == {1, NumFiles}

\* "f01.c", "f02.c", ...
FileName(i) == <<102, 48 + (i \div 10), 48 + (i % 10), DOT, 99>>

ManyFiles ==
    [i \in 1..NumFiles |->
        [name |-> FileName(i), filename |-> Ptr(FileName(i)), contents |-> <<97, 98>>]]

EntryCleared(bp) ==
    \E i \in 1..Len(g_buffer_diags) :
        g_buffer_diags[i].bp = bp /\ g_buffer_diags[i].diags = <<>>

\* the buffers the user turns to next
NextFile ==
    IF buffers[curbp].name = LINT_BUFFER_NAME
    THEN {b \in 1..Len(buffers) : buffers[b].filename = Ptr(g_lint_source_file)}
    ELSE IF curbp < NumFiles /\ EntryCleared(curbp) THEN {curbp + 1} ELSE {}

NextFiles ==
    \/ lint_init
    \/ (curbp \in LintedFiles /\ cmd_lint)
    \/ cmd_lint_clear
    \/ \E ds \in {<<>>, <<TsDiag>>} :
          /\ curbp <= NumFiles
          /\ on_treesitter_lint([buffer |-> curbp, diags |-> ds])
    \/ \E ds \in {<<>>, <<LspDiag>>} :
          /\ curbp <= NumFiles
          /\ on_lsp_diagnostics([uri |-> FileScheme \o buffers[curbp].name, diags |-> ds])
    \/ \E b \in NextFile : SwitchBuffer(b)

InitFiles ==
    /\ pattern = <<>>
    /\ case_sensitive = TRUE
    /\ str = <<>>
    /\ prog = EmptyProg
    /\ ret = FALSE
    /\ pc = "lint"
    /\ p = 0
    /\ start = -1
    /\ last = -1
    /\ start_anchor = FALSE
    /\ start_pos = 0
    /\ pos = 0
    /\ cur = <<>>
    /\ result = NoMatch
    /\ NoCalls
    /\ g_api = FALSE
    /\ pattern_rules = <<RuleBad, RuleAB>>
    /\ g_buffer_diags = <<>>
    /\ g_lint_source_file = <<>>
    /\ api = [unregister_command |-> TRUE, off |-> TRUE]
    /\ loaded = FALSE
    /\ buffers = ManyFiles
    /\ curbp = 1
    /\ registered = {}
    /\ message = <<>>
    /\ searched = {}
    /\ search_offset = 0

SpecFiles == InitFiles /\ [][NextFiles]_vars

\* the diagnostics run_pattern_rules records for the buffer in an empty store
MatchesAlone(bp) ==
    DiagsOf(run_pattern_rules(<<>>, pattern_rules, buffers, bp, TRUE).list, bp)

LintReports ==
    /\ DiagsOf(g_buffer_diags', curbp) = MatchesAlone(curbp)
    /\ message' # <<"lint: No issues found">>

\* the lint command reports the matches while a slot is left for the buffer
LintReportsWhileSlotsLast ==
    [][(/\ cmd_lint
        /\ g_api
        /\ MatchesAlone(curbp) # {}
        /\ get_buffer_diags(g_buffer_diags, curbp).idx # 0) => LintReports]_vars

C30_LintReportsMatchesInAnyBuffer ==
    [][(cmd_lint /\ g_api /\ MatchesAlone(curbp) # {}) => LintReports]_vars

====
